---- MODULE Spec2Model ----
(***************************************************************************)
(* Extendible hash index of BusTub: bucket page, directory page and the    *)
(* ExtendibleHashTable operations (GetValue, Insert, SplitInsert, Remove,  *)
(* Merge, ExtraMerge).                                                     *)
(*                                                                         *)
(* Sizes are scaled down: BUCKET_ARRAY_SIZE slots per bucket page and a    *)
(* directory of 2^MAX_DEPTH slots.  Slot and directory indices are 0-based *)
(* as in the source.                                                       *)
(***************************************************************************)
EXTENDS Integers, Sequences, FiniteSets, TLC

\* ------------------------------------------------------------------ sizes
BUCKET_ARRAY_SIZE == 2
MAX_DEPTH == 2
MaxKey == 2
MaxValue == 1
HashWidth == 4
NumThreads == 2
\* calls a thread makes in the concurrent specification
MaxCalls == 2
\* BUCKET_ARRAY_SIZE of the page whose readable_ bitmap is followed bit by bit
BitmapSlots == 8

DIRECTORY_ARRAY_SIZE == 2 ^ MAX_DEPTH
\* The model follows the directory one doubling past MAX_DEPTH and no further.
DepthCap == MAX_DEPTH + 1
MemSlots == 2 ^ DepthCap
Keys == 0 .. MaxKey
Values == 0 .. MaxValue
\* the pairs the calls are made with: two values for key 0, one for the others
ValuesOf(key) == IF key = 0 THEN Values ELSE {0}
Pairs == {kv \in Keys \X Values : kv[2] \in ValuesOf(kv[1])}
\* page id 0 is the directory page; bucket pages take ids from 1
PageIds == 1 .. MemSlots
\* directory_page_id_
DIRECTORY_PAGE_ID == 0
AllPageIds == {DIRECTORY_PAGE_ID} \cup PageIds
BitmapBytes == (BUCKET_ARRAY_SIZE - 1) \div 8 + 1
Slots == 0 .. (BUCKET_ARRAY_SIZE - 1)

\* ------------------------------------------------------- integer bit ops
RECURSIVE BitAnd(_, _)
BitAnd(a, b) ==
  IF a = 0 \/ b = 0 THEN 0
  ELSE (IF a % 2 = 1 /\ b % 2 = 1 THEN 1 ELSE 0) + 2 * BitAnd(a \div 2, b \div 2)

RECURSIVE BitXor(_, _)
BitXor(a, b) ==
  IF a = 0 THEN b
  ELSE IF b = 0 THEN a
  ELSE (IF a % 2 # b % 2 THEN 1 ELSE 0) + 2 * BitXor(a \div 2, b \div 2)

Shl(n) == 2 ^ n

\* --------------------------------------------------------- bucket page
\* a freshly allocated (zeroed) page
EmptyPage ==
  [occupied |-> [b \in 0 .. (BitmapBytes - 1) |-> 0],
   readable |-> [b \in 0 .. (BitmapBytes - 1) |-> 0],
   array    |-> [i \in Slots |-> <<0, 0>>]]

TestBit(bytes, bucket_idx) ==
  (bytes[bucket_idx \div 8] \div Shl(bucket_idx % 8)) % 2 = 1

IsOccupied(page, bucket_idx) == TestBit(page.occupied, bucket_idx)

IsReadable(page, bucket_idx) == TestBit(page.readable, bucket_idx)

\* bytes[index] |= 1 << offset
OrBit(bytes, bucket_idx) ==
  IF TestBit(bytes, bucket_idx) THEN bytes
  ELSE [bytes EXCEPT ![bucket_idx \div 8] = @ + Shl(bucket_idx % 8)]

\* SetOccupied that leaves the occupied bitmap as it is
SetOccupied_NoBit(page, bucket_idx) == page

SetOccupied(page, bucket_idx) ==
  [page EXCEPT !.occupied = OrBit(page.occupied, bucket_idx)]

SetReadable(page, bucket_idx) ==
  [page EXCEPT !.readable = OrBit(page.readable, bucket_idx)]

\* SetUnreadable that clears the occupied bit of the slot too
SetUnreadable_ClearOccupied(page, bucket_idx) ==
  LET cleared == IF IsOccupied(page, bucket_idx)
                 THEN [page EXCEPT !.occupied[bucket_idx \div 8] = @ - Shl(bucket_idx % 8)]
                 ELSE page
  IN IF IsReadable(page, bucket_idx)
     THEN [cleared EXCEPT !.readable[bucket_idx \div 8] = @ - Shl(bucket_idx % 8)]
     ELSE cleared

\* readable_[index] &= ~(1 << offset)
SetUnreadable(page, bucket_idx) ==
  IF IsReadable(page, bucket_idx)
  THEN [page EXCEPT !.readable[bucket_idx \div 8] = @ - Shl(bucket_idx % 8)]
  ELSE page

RemoveAt(page, bucket_idx) == SetUnreadable(page, bucket_idx)

KeyAt(page, bucket_idx) ==
  IF IsReadable(page, bucket_idx) THEN page.array[bucket_idx][1] ELSE 0

ValueAt(page, bucket_idx) ==
  IF IsReadable(page, bucket_idx) THEN page.array[bucket_idx][2] ELSE 0

\* the scan of GetValue from slot i on, with its early stop
RECURSIVE GetValueFrom(_, _, _)
GetValueFrom(page, key, i) ==
  IF i >= BUCKET_ARRAY_SIZE THEN <<>>
  ELSE IF IsReadable(page, i) /\ page.array[i][1] = key
       THEN <<page.array[i][2]>> \o GetValueFrom(page, key, i + 1)
  ELSE IF ~IsOccupied(page, i) THEN <<>>
  ELSE GetValueFrom(page, key, i + 1)

\* the values appended to *result; the return flag is "something was appended"
BucketGetValue(page, key) ==
  LET res == GetValueFrom(page, key, 0)
  IN [ret |-> Len(res) > 0, result |-> res]

\* The scan of Insert that takes the last slot that is not readable
InsertScan_LastFree(page, key, value, i, insert_index) ==
  LET free == {j \in Slots : ~IsReadable(page, j)}
  IN IF \E j \in Slots : IsReadable(page, j) /\ page.array[j] = <<key, value>> THEN -1
     ELSE IF free = {} THEN BUCKET_ARRAY_SIZE
     ELSE CHOOSE j \in free : \A k \in free : k <= j

\* The scan of Insert that passes over tombstones and takes the first slot
\* never used
RECURSIVE InsertScan_NoReuse(_, _, _, _, _)
InsertScan_NoReuse(page, key, value, i, insert_index) ==
  IF i >= BUCKET_ARRAY_SIZE THEN insert_index
  ELSE IF IsReadable(page, i) /\ page.array[i] = <<key, value>> THEN -1
  ELSE IF ~IsReadable(page, i) /\ ~IsOccupied(page, i) THEN i
  ELSE InsertScan_NoReuse(page, key, value, i + 1, insert_index)

\* The scan of Insert from slot i on: -1 when the pair is found (return false),
\* else the chosen insert_index (BUCKET_ARRAY_SIZE when there is none).
RECURSIVE InsertScan(_, _, _, _, _)
InsertScan(page, key, value, i, insert_index) ==
  IF i >= BUCKET_ARRAY_SIZE THEN insert_index
  ELSE IF IsReadable(page, i) /\ page.array[i] = <<key, value>> THEN -1
  ELSE IF ~IsReadable(page, i)
       THEN LET idx == IF insert_index = BUCKET_ARRAY_SIZE THEN i ELSE insert_index
            IN IF ~IsOccupied(page, i) THEN idx
               ELSE InsertScan(page, key, value, i + 1, idx)
  ELSE InsertScan(page, key, value, i + 1, insert_index)

\* Insert that sets the readable bit of the slot it writes and not the occupied bit
BucketInsert_NoSetOccupied(page, key, value) ==
  LET insert_index == InsertScan(page, key, value, 0, BUCKET_ARRAY_SIZE)
  IN IF insert_index = -1 \/ insert_index = BUCKET_ARRAY_SIZE
     THEN [page |-> page, ret |-> FALSE]
     ELSE [page |-> SetReadable([page EXCEPT !.array[insert_index] = <<key, value>>],
                                insert_index),
           ret |-> TRUE]

BucketInsert(page, key, value) ==
  LET insert_index == InsertScan(page, key, value, 0, BUCKET_ARRAY_SIZE)
  IN IF insert_index = -1 \/ insert_index = BUCKET_ARRAY_SIZE
     THEN [page |-> page, ret |-> FALSE]
     ELSE [page |-> SetReadable(SetOccupied(
                      [page EXCEPT !.array[insert_index] = <<key, value>>],
                      insert_index), insert_index),
           ret |-> TRUE]

RECURSIVE RemoveScan(_, _, _, _)
RemoveScan(page, key, value, i) ==
  IF i >= BUCKET_ARRAY_SIZE THEN [page |-> page, ret |-> FALSE]
  ELSE IF IsReadable(page, i) /\ page.array[i] = <<key, value>>
       THEN [page |-> SetUnreadable(page, i), ret |-> TRUE]
  ELSE IF ~IsOccupied(page, i) THEN [page |-> page, ret |-> FALSE]
  ELSE RemoveScan(page, key, value, i + 1)

BucketRemove(page, key, value) == RemoveScan(page, key, value, 0)

IsFull(page) ==
  LET exact_div_size == BUCKET_ARRAY_SIZE \div 8
      rest == BUCKET_ARRAY_SIZE - (BUCKET_ARRAY_SIZE \div 8) * 8
  IN /\ \A i \in 0 .. (exact_div_size - 1) : page.readable[i] = 255
     /\ ~(rest # 0 /\ page.readable[(BUCKET_ARRAY_SIZE - 1) \div 8] # Shl(rest) - 1)

\* static_cast<int>(readable_[i]), as the two 16-bit halves of the 32-bit int:
\* readable_ is an array of char, and char is a signed type on some platforms
\* (x86) and an unsigned one on others (ARM), so a byte with its top bit set
\* converts to byte - 256 (sign extended) on the first and to byte on the second.
CharToInt(byte, char_is_signed) ==
  IF char_is_signed /\ byte >= 128
  THEN [hi |-> 2 ^ 16 - 1, lo |-> 2 ^ 16 - 256 + byte]
  ELSE [hi |-> 0, lo |-> byte]

\* n - 1 on the 32 bits of n.  For n = INT_MIN the subtraction overflows; it
\* wraps to INT_MAX in the code generated for two's complement machines.
IntMinusOne(n) ==
  IF n.lo > 0 THEN [n EXCEPT !.lo = @ - 1]
  ELSE [hi |-> (n.hi - 1) % (2 ^ 16), lo |-> 2 ^ 16 - 1]

\* while (n != 0) { n &= n - 1; cnt++; }
RECURSIVE ClearLowestOnes(_, _)
ClearLowestOnes(n, cnt) ==
  IF n.hi = 0 /\ n.lo = 0 THEN cnt
  ELSE LET m == IntMinusOne(n)
       IN ClearLowestOnes([hi |-> BitAnd(n.hi, m.hi), lo |-> BitAnd(n.lo, m.lo)],
                          cnt + 1)

\* the loop of NumReadable over the bytes from i on
RECURSIVE NumReadableFrom(_, _, _, _, _)
NumReadableFrom(readable, i, read_array_size, char_is_signed, cnt) ==
  IF i >= read_array_size THEN cnt
  ELSE NumReadableFrom(readable, i + 1, read_array_size, char_is_signed,
                       ClearLowestOnes(CharToInt(readable[i], char_is_signed), cnt))

\* NumReadable of a page of bucket_array_size slots with this readable_
NumReadable(readable, bucket_array_size, char_is_signed) ==
  NumReadableFrom(readable, 0, (bucket_array_size - 1) \div 8 + 1, char_is_signed, 0)

IsEmpty(page) ==
  \A i \in 0 .. (BitmapBytes - 1) : page.readable[i] = 0

\* the live pairs of a page
GetAllItem(page) == {page.array[i] : i \in {j \in Slots : IsReadable(page, j)}}

\* ------------------------------------------------------ directory page
\* The directory page right after construction: zeroed page, slot 0 points to
\* the first bucket page.
NewDirectory(bucket_page_id) ==
  [global_depth    |-> 0,
   local_depths    |-> [i \in 0 .. (MemSlots - 1) |-> 0],
   bucket_page_ids |-> [i \in 0 .. (MemSlots - 1) |-> IF i = 0 THEN bucket_page_id ELSE 0]]

GetGlobalDepth(dir) == dir.global_depth

GetGlobalDepthMask(dir) == Shl(dir.global_depth) - 1

Size(dir) == Shl(dir.global_depth)

GetLocalDepth(dir, bucket_idx) == dir.local_depths[bucket_idx]

GetLocalDepthMask(dir, bucket_idx) == Shl(dir.local_depths[bucket_idx]) - 1

GetBucketPageId(dir, bucket_idx) == dir.bucket_page_ids[bucket_idx]

GetSplitImageIndex(dir, bucket_idx) ==
  BitXor(bucket_idx, Shl(dir.local_depths[bucket_idx] - 1))

CanShrink(dir) ==
  \A i \in 0 .. (Size(dir) - 1) : dir.local_depths[i] < dir.global_depth

IncrGlobalDepth(dir) == [dir EXCEPT !.global_depth = @ + 1]

DecrGlobalDepth(dir) == [dir EXCEPT !.global_depth = @ - 1]

\* --------------------------------------------------------- hash, routing
\* hash_fn_ is supplied by the caller; here a fixed function of the key whose
\* values 16, 20, 17, 21, ... collide on their low bits for neighbouring keys
GetHash(key) == ((4 * key) % 7) + 16

\* static_cast<uint32_t>(...), at the model's width
Hash(key) == GetHash(key) % Shl(HashWidth)

KeyToDirectoryIndex(key, dir) == BitAnd(Hash(key), GetGlobalDepthMask(dir))

KeyToPageId(key, dir) == GetBucketPageId(dir, KeyToDirectoryIndex(key, dir))

\* ------------------------------------------------------- buffer pool
\* NewPage hands out a page id that is not in use
NewPageId(allocated) == CHOOSE p \in PageIds \ allocated : \A q \in PageIds \ allocated : p <= q

\* --------------------------------------------------------------- table
\* A table state is [dir, pages, allocated]: the directory page, the content
\* of every bucket page, and the set of bucket page ids in use.

\* the constructor
NewTable ==
  LET bucket_page_id == NewPageId({})
  IN [dir       |-> NewDirectory(bucket_page_id),
      pages     |-> [p \in PageIds |-> EmptyPage],
      allocated |-> {bucket_page_id}]

TableGetValue(T, key) ==
  BucketGetValue(T.pages[KeyToPageId(key, T.dir)], key)

\* SplitInsert, the directory part: the local depths of the slots that keep
\* the old bucket, then either the redirection of the other half of its slots
\* or the doubling of the directory.
SplitDirectory(dir, key, new_bucket_page_id) ==
  LET old_bucket_page_index == KeyToDirectoryIndex(key, dir)
      old_bucket_page_id == KeyToPageId(key, dir)
      local_depth == GetLocalDepth(dir, old_bucket_page_index)
      old_local_mask == GetLocalDepthMask(dir, old_bucket_page_index)
      new_local_mask == old_local_mask + (old_local_mask + 1)
      new_local_hash == BitAnd(old_bucket_page_index, new_local_mask)
      dir_size == Size(dir)
      stays(i) == i < dir_size /\ BitAnd(i, new_local_mask) = new_local_hash
      dir1 == [dir EXCEPT !.local_depths =
                 [i \in DOMAIN @ |-> IF stays(i) THEN @[i] + 1 ELSE @[i]]]
      moves(i) == /\ i < dir_size
                  /\ GetBucketPageId(dir1, i) = old_bucket_page_id
                  /\ BitAnd(i, new_local_mask) # new_local_hash
      upper(i) == i >= dir_size /\ i < 2 * dir_size
  IN IF local_depth < GetGlobalDepth(dir1)
     THEN [dir1 EXCEPT
             !.bucket_page_ids =
                [i \in DOMAIN @ |-> IF moves(i) THEN new_bucket_page_id ELSE @[i]],
             !.local_depths =
                [i \in DOMAIN @ |-> IF moves(i) THEN @[i] + 1 ELSE @[i]]]
     ELSE [IncrGlobalDepth(dir1) EXCEPT
             !.bucket_page_ids =
                [i \in DOMAIN @ |->
                   IF upper(i)
                   THEN IF @[i - dir_size] = old_bucket_page_id
                        THEN new_bucket_page_id ELSE @[i - dir_size]
                   ELSE @[i]],
             !.local_depths =
                [i \in DOMAIN @ |-> IF upper(i) THEN @[i - dir_size] ELSE @[i]]]

\* Slots at index >= DIRECTORY_ARRAY_SIZE lie outside local_depths_ and
\* bucket_page_ids_: a write there is out of bounds, and what such a slot
\* holds afterwards is not determined by the program.  oob names one such slot
\* and the content it is found to hold (either its bucket page id or its local
\* depth differs from the value written); slot -1 stands for "as written".
NoOob == [slot |-> -1, local_depth |-> 0, bucket_page_id |-> 0]

OobChoices(dir1, allocated) ==
  IF GetGlobalDepth(dir1) <= MAX_DEPTH THEN {NoOob}
  ELSE {NoOob}
       \cup {[slot |-> s, local_depth |-> GetLocalDepth(dir1, s), bucket_page_id |-> p] :
               s \in DIRECTORY_ARRAY_SIZE .. (Size(dir1) - 1), p \in allocated}
       \cup {[slot |-> s, local_depth |-> GetGlobalDepth(dir1) + 1,
              bucket_page_id |-> GetBucketPageId(dir1, s)] :
               s \in DIRECTORY_ARRAY_SIZE .. (Size(dir1) - 1)}

OutOfBounds(dir1, oob) ==
  IF oob.slot = -1 THEN dir1
  ELSE [dir1 EXCEPT !.local_depths[oob.slot] = oob.local_depth,
                    !.bucket_page_ids[oob.slot] = oob.bucket_page_id]

\* SplitInsert, the loop that moves entries of the old bucket to the new one:
\* slots i .. bucket_size-1
RECURSIVE Redistribute(_, _, _, _, _)
Redistribute(old_page, new_page, dir, new_bucket_page_id, i) ==
  IF i >= BUCKET_ARRAY_SIZE THEN [old |-> old_page, new |-> new_page]
  ELSE LET bucket_key == KeyAt(old_page, i)
           bucket_value == ValueAt(old_page, i)
       IN IF KeyToPageId(bucket_key, dir) = new_bucket_page_id
          THEN Redistribute(RemoveAt(old_page, i),
                            BucketInsert(new_page, bucket_key, bucket_value).page,
                            dir, new_bucket_page_id, i + 1)
          ELSE Redistribute(old_page, new_page, dir, new_bucket_page_id, i + 1)

\* SplitInsert that splits without reading IsFull again
SplitInsert_NoRecheck(T, key, value, oob) ==
  LET dir_page == T.dir
      old_bucket_page_id == KeyToPageId(key, dir_page)
      old_bucket_page == T.pages[old_bucket_page_id]
      new_bucket_page_id == NewPageId(T.allocated)
      dir2 == OutOfBounds(SplitDirectory(dir_page, key, new_bucket_page_id), oob)
      moved == Redistribute(old_bucket_page, EmptyPage, dir2, new_bucket_page_id, 0)
      to_old == KeyToPageId(key, dir2) = old_bucket_page_id
      r == IF to_old THEN BucketInsert(moved.old, key, value)
                     ELSE BucketInsert(moved.new, key, value)
  IN [T |-> [dir |-> dir2,
             pages |-> [T.pages EXCEPT
                ![old_bucket_page_id] = IF to_old THEN r.page ELSE moved.old,
                ![new_bucket_page_id] = IF to_old THEN moved.new ELSE r.page],
             allocated |-> T.allocated \cup {new_bucket_page_id}],
      ret |-> r.ret, split |-> TRUE]

\* SplitInsert: [T, ret, split]; split tells whether a bucket page was allocated
SplitInsert(T, key, value, oob) ==
  LET dir_page == T.dir
      old_bucket_page_id == KeyToPageId(key, dir_page)
      old_bucket_page == T.pages[old_bucket_page_id]
  IN IF ~IsFull(old_bucket_page)
     THEN LET r == BucketInsert(old_bucket_page, key, value)
          IN [T |-> [T EXCEPT !.pages[old_bucket_page_id] = r.page],
              ret |-> r.ret, split |-> FALSE]
     ELSE LET new_bucket_page_id == NewPageId(T.allocated)
              dir2 == OutOfBounds(SplitDirectory(dir_page, key, new_bucket_page_id), oob)
              moved == Redistribute(old_bucket_page, EmptyPage, dir2, new_bucket_page_id, 0)
              to_old == KeyToPageId(key, dir2) = old_bucket_page_id
              r == IF to_old THEN BucketInsert(moved.old, key, value)
                             ELSE BucketInsert(moved.new, key, value)
          IN [T |-> [dir |-> dir2,
                     pages |-> [T.pages EXCEPT
                        ![old_bucket_page_id] = IF to_old THEN r.page ELSE moved.old,
                        ![new_bucket_page_id] = IF to_old THEN moved.new ELSE r.page],
                     allocated |-> T.allocated \cup {new_bucket_page_id}],
              ret |-> r.ret, split |-> TRUE]

\* the choices of oob that SplitInsert(T, key, value, _) can meet
SplitOobChoices(T, key) ==
  IF IsFull(T.pages[KeyToPageId(key, T.dir)])
  THEN OobChoices(SplitDirectory(T.dir, key, NewPageId(T.allocated)),
                  T.allocated \cup {NewPageId(T.allocated)})
  ELSE {NoOob}

\* Insert: [T, ret, split]
Insert(T, key, value, oob) ==
  LET bucket_page_id == KeyToPageId(key, T.dir)
      r == BucketInsert(T.pages[bucket_page_id], key, value)
      T1 == [T EXCEPT !.pages[bucket_page_id] = r.page]
  IN IF ~r.ret /\ IsFull(T1.pages[bucket_page_id])
     THEN SplitInsert(T1, key, value, oob)
     ELSE [T |-> T1, ret |-> r.ret, split |-> FALSE]

\* DeletePage: the id is free again and the page content is reset
DeletePage(T, page_id) ==
  [T EXCEPT !.allocated = @ \ {page_id}, !.pages[page_id] = EmptyPage]

\* Merge that does not read IsEmpty again under the exclusive table latch
Merge_NoIsEmpty(T, key) ==
  LET dir_page == T.dir
      index == KeyToDirectoryIndex(key, dir_page)
      bucket_page_id == KeyToPageId(key, dir_page)
      dir_size == Size(dir_page)
      local_depth == GetLocalDepth(dir_page, index)
      local_mask == GetLocalDepthMask(dir_page, index)
  IN IF local_depth > 0
     THEN LET another_bucket_idx == GetSplitImageIndex(dir_page, index)
              another_local_depth == GetLocalDepth(dir_page, another_bucket_idx)
              another_bucket_page_id == GetBucketPageId(dir_page, another_bucket_idx)
              same_mask == BitXor(local_mask, Shl(local_depth - 1))
              dir1 == [dir_page EXCEPT !.bucket_page_ids =
                         [i \in DOMAIN @ |->
                            IF i < dir_size /\ BitAnd(i, local_mask) = BitAnd(index, local_mask)
                            THEN another_bucket_page_id ELSE @[i]]]
              dir2 == [dir1 EXCEPT !.local_depths =
                         [i \in DOMAIN @ |->
                            IF i < dir_size /\ BitAnd(i, same_mask) = BitAnd(index, same_mask)
                            THEN @[i] - 1 ELSE @[i]]]
              dir3 == IF CanShrink(dir2) THEN DecrGlobalDepth(dir2) ELSE dir2
          IN IF another_local_depth = local_depth
             THEN [DeletePage(T, bucket_page_id) EXCEPT !.dir = dir3]
             ELSE T
     ELSE T

\* Merge: the table state after it
Merge(T, key) ==
  LET dir_page == T.dir
      index == KeyToDirectoryIndex(key, dir_page)
      bucket_page_id == KeyToPageId(key, dir_page)
      dir_size == Size(dir_page)
      local_depth == GetLocalDepth(dir_page, index)
      local_mask == GetLocalDepthMask(dir_page, index)
      bucket_page == T.pages[bucket_page_id]
  IN IF local_depth > 0 /\ IsEmpty(bucket_page)
     THEN LET another_bucket_idx == GetSplitImageIndex(dir_page, index)
              another_local_depth == GetLocalDepth(dir_page, another_bucket_idx)
              another_bucket_page_id == GetBucketPageId(dir_page, another_bucket_idx)
              \* read only when the merge occurs, where local_depth > 0
              same_mask == BitXor(local_mask, Shl(local_depth - 1))
              dir1 == [dir_page EXCEPT !.bucket_page_ids =
                         [i \in DOMAIN @ |->
                            IF i < dir_size /\ BitAnd(i, local_mask) = BitAnd(index, local_mask)
                            THEN another_bucket_page_id ELSE @[i]]]
              dir2 == [dir1 EXCEPT !.local_depths =
                         [i \in DOMAIN @ |->
                            IF i < dir_size /\ BitAnd(i, same_mask) = BitAnd(index, same_mask)
                            THEN @[i] - 1 ELSE @[i]]]
              dir3 == IF CanShrink(dir2) THEN DecrGlobalDepth(dir2) ELSE dir2
          IN IF another_local_depth = local_depth
             THEN [DeletePage(T, bucket_page_id) EXCEPT !.dir = dir3]
             ELSE T
     ELSE T

\* ExtraMerge that lowers the local depth of the slots of the deleted bucket
\* and not of the slots of the bucket that stays
ExtraMerge_KeepOwnDepth(T, key) ==
  LET dir_page == T.dir
      bucket_page_id == KeyToPageId(key, dir_page)
      index == KeyToDirectoryIndex(key, dir_page)
      local_depth == GetLocalDepth(dir_page, index)
      dir_size == Size(dir_page)
  IN IF local_depth > 0
     THEN LET extra_bucket_idx == GetSplitImageIndex(dir_page, index)
              extra_local_depth == GetLocalDepth(dir_page, extra_bucket_idx)
              extra_bucket_page_id == GetBucketPageId(dir_page, extra_bucket_idx)
              extra_bucket == T.pages[extra_bucket_page_id]
              is_extra(i) == i < dir_size /\ GetBucketPageId(dir_page, i) = extra_bucket_page_id
              dir1 == [dir_page EXCEPT
                         !.bucket_page_ids =
                            [i \in DOMAIN @ |-> IF is_extra(i) THEN bucket_page_id ELSE @[i]],
                         !.local_depths =
                            [i \in DOMAIN @ |-> IF is_extra(i) THEN @[i] - 1 ELSE @[i]]]
              dir2 == IF CanShrink(dir1) THEN DecrGlobalDepth(dir1) ELSE dir1
          IN IF extra_local_depth = local_depth /\ IsEmpty(extra_bucket)
             THEN [T |-> [DeletePage(T, extra_bucket_page_id) EXCEPT !.dir = dir2],
                   ret |-> TRUE]
             ELSE [T |-> T, ret |-> FALSE]
     ELSE [T |-> T, ret |-> FALSE]

\* ExtraMerge: [T, ret]; ret is extra_merge_occur
ExtraMerge(T, key) ==
  LET dir_page == T.dir
      bucket_page_id == KeyToPageId(key, dir_page)
      index == KeyToDirectoryIndex(key, dir_page)
      local_depth == GetLocalDepth(dir_page, index)
      dir_size == Size(dir_page)
  IN IF local_depth > 0
     THEN LET extra_bucket_idx == GetSplitImageIndex(dir_page, index)
              extra_local_depth == GetLocalDepth(dir_page, extra_bucket_idx)
              extra_bucket_page_id == GetBucketPageId(dir_page, extra_bucket_idx)
              extra_bucket == T.pages[extra_bucket_page_id]
              is_extra(i) == i < dir_size /\ GetBucketPageId(dir_page, i) = extra_bucket_page_id
              is_own(i) == i < dir_size /\ GetBucketPageId(dir_page, i) = bucket_page_id
              dir1 == [dir_page EXCEPT
                         !.bucket_page_ids =
                            [i \in DOMAIN @ |-> IF is_extra(i) THEN bucket_page_id ELSE @[i]],
                         !.local_depths =
                            [i \in DOMAIN @ |->
                               IF is_extra(i) \/ is_own(i) THEN @[i] - 1 ELSE @[i]]]
              dir2 == IF CanShrink(dir1) THEN DecrGlobalDepth(dir1) ELSE dir1
          IN IF extra_local_depth = local_depth /\ IsEmpty(extra_bucket)
             THEN [T |-> [DeletePage(T, extra_bucket_page_id) EXCEPT !.dir = dir2],
                   ret |-> TRUE]
             ELSE [T |-> T, ret |-> FALSE]
     ELSE [T |-> T, ret |-> FALSE]

\* while (ExtraMerge(transaction, key, value)) {}
RECURSIVE ExtraMergeLoop(_, _)
ExtraMergeLoop(T, key) ==
  LET r == ExtraMerge(T, key)
  IN IF r.ret THEN ExtraMergeLoop(r.T, key) ELSE r.T

\* Remove that calls Merge and never ExtraMerge
Remove_NoExtraMerge(T, key, value) ==
  LET bucket_page_id == KeyToPageId(key, T.dir)
      r == BucketRemove(T.pages[bucket_page_id], key, value)
      T1 == [T EXCEPT !.pages[bucket_page_id] = r.page]
  IN IF r.ret /\ IsEmpty(T1.pages[bucket_page_id])
     THEN [T |-> Merge(T1, key), ret |-> r.ret]
     ELSE [T |-> T1, ret |-> r.ret]

\* Remove: [T, ret]
Remove(T, key, value) ==
  LET bucket_page_id == KeyToPageId(key, T.dir)
      r == BucketRemove(T.pages[bucket_page_id], key, value)
      T1 == [T EXCEPT !.pages[bucket_page_id] = r.page]
  IN IF r.ret /\ IsEmpty(T1.pages[bucket_page_id])
     THEN [T |-> ExtraMergeLoop(Merge(T1, key), key), ret |-> r.ret]
     ELSE [T |-> T1, ret |-> r.ret]

\* ------------------------------------------------ sequential specification
VARIABLES
  dir_page,    \* the directory page
  pages,       \* bucket page id -> bucket page content
  allocated,   \* bucket page ids in use
  last,        \* the last call that returned and what it returned
  called,      \* the pairs Insert was called with and Remove was not called with since
  thread,      \* thread -> the call it is in, its position and its locals
  table_latch, \* table_latch_
  page_latch,  \* bucket page id -> the latch of that page
  lin,         \* the orders in which the calls so far can have taken effect
  pin_count,   \* page id -> the pin count of the page in the buffer pool
  pool_calls,  \* the buffer pool calls of the last call, operation by operation
  ndebug,      \* whether the build defines NDEBUG (assert expands to nothing)
  readable_,   \* the readable_ bitmap of a bucket page of BitmapSlots slots
  char_is_signed, \* whether char is a signed type on the platform
  num_readable \* what the last call of NumReadable on that page returned

vars == <<dir_page, pages, allocated, last, called, thread, table_latch, page_latch, lin,
          pin_count, pool_calls, ndebug, readable_, char_is_signed, num_readable>>

seq_vars == <<dir_page, pages, allocated, last, called>>

table_vars == <<dir_page, pages, allocated>>

conc_vars == <<thread, table_latch, page_latch, lin>>

\* The buffer pool is followed by SpecPool only: the other specifications
\* follow the table and the latches and leave these variables alone.
pool_vars == <<pin_count, pool_calls, ndebug>>

\* The bitmap of the wide page is followed by SpecBitmap only.
bitmap_vars == <<readable_, char_is_signed, num_readable>>

Table == [dir |-> dir_page, pages |-> pages, allocated |-> allocated]

SetTable(T) ==
  /\ dir_page' = T.dir
  /\ pages' = T.pages
  /\ allocated' = T.allocated

NoCall == [op |-> "none", key |-> 0, value |-> 0, ret |-> FALSE, split |-> FALSE]

Threads == 1 .. NumThreads

\* a thread outside any call
IdleThread ==
  [pc |-> "idle", op |-> "none", key |-> 0, value |-> 0, ret |-> FALSE,
   bucket_page_id |-> 0, dangling |-> FALSE, calls |-> 0]

\* a reader-writer latch: the threads holding it shared, the thread holding it
\* exclusively (0: none)
NoLatch == [readers |-> {}, writer |-> 0]

\* what a call returns: the flag, and for GetValue the values appended to
\* *result and their number
Result(ret, values, len) == [ret |-> ret, values |-> values, len |-> len]

NoResult == Result(FALSE, {}, 0)

\* a thread's entry in an order of lin: s is "idle", "pend" (called, not yet
\* taken effect) or "done" (taken effect with result res)
NotCalled == [s |-> "idle", res |-> NoResult]

\* a bitmap with no bit set
NoBits == [b \in 0 .. ((BitmapSlots - 1) \div 8) |-> 0]

\* the wide page is new and NumReadable has not been called
BitmapIdle ==
  /\ readable_ = NoBits
  /\ char_is_signed = FALSE
  /\ num_readable = 0

\* no page is pinned; a build with assert
PoolIdle ==
  /\ pin_count = [p \in AllPageIds |-> 0]
  /\ pool_calls = <<>>
  /\ ndebug = FALSE

Init ==
  /\ dir_page = NewTable.dir
  /\ pages = NewTable.pages
  /\ allocated = NewTable.allocated
  /\ last = NoCall
  /\ called = {}
  /\ thread = [t \in Threads |-> IdleThread]
  /\ table_latch = NoLatch
  /\ page_latch = [p \in PageIds |-> NoLatch]
  /\ lin = {[set |-> {}, st |-> [t \in Threads |-> NotCalled]]}
  /\ PoolIdle
  /\ BitmapIdle

\* ---------------------------------------------------- what is stored
\* the pairs held by a readable slot of some bucket page in use
Live(T) == UNION {GetAllItem(T.pages[p]) : p \in T.allocated}

LivePairs == Live(Table)

SeqToSet(seq) == {seq[i] : i \in 1 .. Len(seq)}

DirSlots == 0 .. (Size(dir_page) - 1)

LastPair == <<last.key, last.value>>

\* what Remove(key, value) returns when called now
RemoveReturns(key, value) ==
  BucketRemove(pages[KeyToPageId(key, dir_page)], key, value).ret

\* whether Insert(key, value), called now, goes on to SplitInsert
InsertSplits(key, value) ==
  LET page == pages[KeyToPageId(key, dir_page)]
  IN ~BucketInsert(page, key, value).ret /\ IsFull(page)

\* whether Remove(key, value), called now, goes on to Merge
RemoveMerges(key, value) ==
  LET r == BucketRemove(pages[KeyToPageId(key, dir_page)], key, value)
  IN r.ret /\ IsEmpty(r.page)

\* Once a directory slot outside the arrays has been written the behaviour of
\* the table is undefined.  From there on the model follows the calls that
\* only read the directory (GetValue, and Insert and Remove when they end
\* without SplitInsert or Merge), and no call that would restructure it.
Defined == GetGlobalDepth(dir_page) <= MAX_DEPTH

DoGetValue(key) ==
  /\ LET r == TableGetValue(Table, key)
     IN last' = [op |-> "GetValue", key |-> key, value |-> 0, ret |-> r.ret,
                 split |-> FALSE]
  /\ UNCHANGED <<dir_page, pages, allocated, called, conc_vars, pool_vars, bitmap_vars>>

DoInsert(key, value) ==
  /\ Defined \/ ~InsertSplits(key, value)
  /\ \E oob \in SplitOobChoices(Table, key) :
       LET r == Insert(Table, key, value, oob)
       IN /\ SetTable(r.T)
          /\ last' = [op |-> "Insert", key |-> key, value |-> value, ret |-> r.ret,
                      split |-> r.split]
  /\ called' = called \cup {<<key, value>>}
  /\ UNCHANGED <<conc_vars, pool_vars, bitmap_vars>>

DoRemove(key, value) ==
  /\ Defined \/ ~RemoveMerges(key, value)
  /\ LET r == Remove(Table, key, value)
     IN /\ SetTable(r.T)
        /\ last' = [op |-> "Remove", key |-> key, value |-> value, ret |-> r.ret,
                    split |-> FALSE]
  /\ called' = called \ {<<key, value>>}
  /\ UNCHANGED <<conc_vars, pool_vars, bitmap_vars>>

Next ==
  \/ \E key \in Keys : DoGetValue(key)
  \/ \E kv \in Pairs : DoInsert(kv[1], kv[2])
  \/ \E kv \in Pairs : DoRemove(kv[1], kv[2])

Spec == Init /\ [][Next]_vars

\* ------------------------------------------------ concurrent specification
\* Each thread makes calls one after the other.  A call is a sequence of
\* steps; a step is what the thread does between two points where it takes a
\* latch or reads a bucket page it has unpinned.

RLock(latch, t) == [latch EXCEPT !.readers = @ \cup {t}]

RUnlock(latch, t) == [latch EXCEPT !.readers = @ \ {t}]

WLock(latch, t) == [latch EXCEPT !.writer = t]

WUnlock(latch) == [latch EXCEPT !.writer = 0]

CanRLock(latch) == latch.writer = 0

CanWLock(latch) == latch.writer = 0 /\ latch.readers = {}

\* The calls on a set of pairs: what the call returns and the set after it
SetCall(set, op, key, value) ==
  IF op = "Insert"
  THEN [set |-> set \cup {<<key, value>>},
        res |-> Result(<<key, value>> \notin set, {}, 0)]
  ELSE IF op = "Remove"
  THEN [set |-> set \ {<<key, value>>},
        res |-> Result(<<key, value>> \in set, {}, 0)]
  ELSE LET stored == {kv[2] : kv \in {x \in set : x[1] = key}}
       IN [set |-> set, res |-> Result(stored # {}, stored, Cardinality(stored))]

\* order c with the pending call of thread t taking effect
Effect(c, t, th) ==
  LET r == SetCall(c.set, th[t].op, th[t].key, th[t].value)
  IN [set |-> r.set, st |-> [c.st EXCEPT ![t] = [s |-> "done", res |-> r.res]]]

\* the orders of C extended by one pending call taking effect
TakeEffect(C, th) ==
  C \cup UNION {{Effect(c, t, th) : c \in {x \in C : x.st[t].s = "pend"}} : t \in Threads}

\* ... by any number of them, in any order
RECURSIVE TakeEffects(_, _, _)
TakeEffects(C, th, n) == IF n = 0 THEN C ELSE TakeEffects(TakeEffect(C, th), th, n - 1)

\* thread t calls: its call is pending in every order
Invoked(C, t, th) ==
  TakeEffects({[c EXCEPT !.st[t] = [s |-> "pend", res |-> NoResult]] : c \in C},
              th, NumThreads)

\* thread t returns res: the orders in which its call took effect with res
Returned(C, t, res) ==
  {[c EXCEPT !.st[t] = NotCalled] : c \in {x \in C : x.st[t] = [s |-> "done", res |-> res]}}

\* thread t starts a call: table_latch_.RLock(), FetchDirectoryPage, KeyToPageId
Call(t, op, key, value, pc) ==
  /\ thread[t].pc = "idle"
  /\ thread[t].calls < MaxCalls
  /\ CanRLock(table_latch)
  /\ table_latch' = RLock(table_latch, t)
  /\ thread' = [thread EXCEPT ![t] =
                 [@ EXCEPT !.pc = pc, !.op = op, !.key = key, !.value = value,
                           !.ret = FALSE, !.dangling = FALSE,
                           !.bucket_page_id = KeyToPageId(key, dir_page)]]
  /\ lin' = Invoked(lin, t, thread')
  /\ UNCHANGED <<seq_vars, page_latch, pool_vars, bitmap_vars>>

\* thread t returns res; split tells whether the call allocated a bucket page
Return(t, res, split) ==
  /\ thread' = [thread EXCEPT ![t] = [IdleThread EXCEPT !.calls = thread[t].calls + 1]]
  /\ lin' = Returned(lin, t, res)
  /\ last' = [op |-> thread[t].op, key |-> thread[t].key, value |-> thread[t].value,
              ret |-> res.ret, split |-> split]

\* the step from pc to next that write-latches the bucket page
WLatch(t, pc, next) ==
  /\ thread[t].pc = pc
  /\ CanWLock(page_latch[thread[t].bucket_page_id])
  /\ page_latch' = [page_latch EXCEPT ![thread[t].bucket_page_id] = WLock(@, t)]
  /\ thread' = [thread EXCEPT ![t].pc = next]
  /\ UNCHANGED <<seq_vars, table_latch, lin, pool_vars, bitmap_vars>>

\* the step from pc to next that takes table_latch_ exclusively
TableWLock(t, pc, next) ==
  /\ thread[t].pc = pc
  /\ CanWLock(table_latch)
  /\ table_latch' = WLock(table_latch, t)
  /\ thread' = [thread EXCEPT ![t].pc = next]
  /\ UNCHANGED <<seq_vars, page_latch, lin, pool_vars, bitmap_vars>>

\* bucket_page->IsFull() and bucket_page->IsEmpty() are read after the page
\* was unpinned and the latches released: when the page was deleted since, the
\* frame holds anything.
ReadUnpinned(t, value) == IF thread[t].dangling THEN BOOLEAN ELSE {value}

\* the threads whose bucket_page points to a page deleted by this step
Dangle(th, deleted) ==
  [u \in Threads |->
     IF th[u].bucket_page_id \in deleted THEN [th[u] EXCEPT !.dangling = TRUE] ELSE th[u]]

GetValue_RLock(t, key) == Call(t, "GetValue", key, 0, "GetValue_RLatch")

GetValue_RLatch(t) ==
  /\ thread[t].pc = "GetValue_RLatch"
  /\ CanRLock(page_latch[thread[t].bucket_page_id])
  /\ page_latch' = [page_latch EXCEPT ![thread[t].bucket_page_id] = RLock(@, t)]
  /\ thread' = [thread EXCEPT ![t].pc = "GetValue_Bucket"]
  /\ UNCHANGED <<seq_vars, table_latch, lin, pool_vars, bitmap_vars>>

GetValue_Bucket(t) ==
  /\ thread[t].pc = "GetValue_Bucket"
  /\ LET r == BucketGetValue(pages[thread[t].bucket_page_id], thread[t].key)
     IN Return(t, Result(r.ret, SeqToSet(r.result), Len(r.result)), FALSE)
  /\ page_latch' = [page_latch EXCEPT ![thread[t].bucket_page_id] = RUnlock(@, t)]
  /\ table_latch' = RUnlock(table_latch, t)
  /\ UNCHANGED <<table_vars, called, pool_vars, bitmap_vars>>

Insert_RLock(t, key, value) == Call(t, "Insert", key, value, "Insert_WLatch")

Insert_WLatch(t) == WLatch(t, "Insert_WLatch", "Insert_Bucket")

\* Insert that keeps table_latch_ shared when it goes on to SplitInsert
Insert_Bucket_NoRUnlock(t) ==
  /\ thread[t].pc = "Insert_Bucket"
  /\ LET r == BucketInsert(pages[thread[t].bucket_page_id], thread[t].key, thread[t].value)
     IN /\ pages' = [pages EXCEPT ![thread[t].bucket_page_id] = r.page]
        /\ thread' = [thread EXCEPT ![t].pc = "Insert_IsFull", ![t].ret = r.ret]
  /\ page_latch' = [page_latch EXCEPT ![thread[t].bucket_page_id] = WUnlock(@)]
  /\ UNCHANGED <<dir_page, allocated, last, called, lin, table_latch, pool_vars, bitmap_vars>>

Insert_Bucket(t) ==
  /\ thread[t].pc = "Insert_Bucket"
  /\ LET r == BucketInsert(pages[thread[t].bucket_page_id], thread[t].key, thread[t].value)
     IN /\ pages' = [pages EXCEPT ![thread[t].bucket_page_id] = r.page]
        /\ thread' = [thread EXCEPT ![t].pc = "Insert_IsFull", ![t].ret = r.ret]
  /\ page_latch' = [page_latch EXCEPT ![thread[t].bucket_page_id] = WUnlock(@)]
  /\ table_latch' = RUnlock(table_latch, t)
  /\ UNCHANGED <<dir_page, allocated, last, called, lin, pool_vars, bitmap_vars>>

Insert_IsFull(t) ==
  /\ thread[t].pc = "Insert_IsFull"
  /\ \E is_full \in ReadUnpinned(t, IsFull(pages[thread[t].bucket_page_id])) :
       IF ~thread[t].ret /\ is_full
       THEN /\ thread' = [thread EXCEPT ![t].pc = "SplitInsert_WLock"]
            /\ UNCHANGED <<lin, last>>
       ELSE Return(t, Result(thread[t].ret, {}, 0), FALSE)
  /\ UNCHANGED <<table_vars, called, table_latch, page_latch, pool_vars, bitmap_vars>>

SplitInsert_WLock(t) == TableWLock(t, "SplitInsert_WLock", "SplitInsert")

\* SplitInsert under the exclusive table latch.  No other thread holds a
\* bucket page latch then (they are taken and released under the shared table
\* latch), so the two WLatch calls of SplitInsert never wait.
SplitInsert_Body(t) ==
  /\ thread[t].pc = "SplitInsert"
  /\ Defined \/ ~IsFull(pages[KeyToPageId(thread[t].key, dir_page)])
  /\ \E oob \in SplitOobChoices(Table, thread[t].key) :
       LET r == SplitInsert(Table, thread[t].key, thread[t].value, oob)
       IN SetTable(r.T) /\ Return(t, Result(r.ret, {}, 0), r.split)
  /\ table_latch' = WUnlock(table_latch)
  /\ UNCHANGED <<called, page_latch, pool_vars, bitmap_vars>>

Remove_RLock(t, key, value) == Call(t, "Remove", key, value, "Remove_WLatch")

Remove_WLatch(t) == WLatch(t, "Remove_WLatch", "Remove_Bucket")

Remove_Bucket(t) ==
  /\ thread[t].pc = "Remove_Bucket"
  /\ LET r == BucketRemove(pages[thread[t].bucket_page_id], thread[t].key, thread[t].value)
     IN /\ pages' = [pages EXCEPT ![thread[t].bucket_page_id] = r.page]
        /\ thread' = [thread EXCEPT ![t].pc = "Remove_IsEmpty", ![t].ret = r.ret]
  /\ page_latch' = [page_latch EXCEPT ![thread[t].bucket_page_id] = WUnlock(@)]
  /\ table_latch' = RUnlock(table_latch, t)
  /\ UNCHANGED <<dir_page, allocated, last, called, lin, pool_vars, bitmap_vars>>

Remove_IsEmpty(t) ==
  /\ thread[t].pc = "Remove_IsEmpty"
  /\ \E is_empty \in ReadUnpinned(t, IsEmpty(pages[thread[t].bucket_page_id])) :
       IF thread[t].ret /\ is_empty
       THEN /\ thread' = [thread EXCEPT ![t].pc = "Merge_WLock"]
            /\ UNCHANGED <<lin, last>>
       ELSE Return(t, Result(thread[t].ret, {}, 0), FALSE)
  /\ UNCHANGED <<table_vars, called, table_latch, page_latch, pool_vars, bitmap_vars>>

Merge_WLock(t) == TableWLock(t, "Merge_WLock", "Merge")

Merge_Body(t) ==
  /\ thread[t].pc = "Merge"
  /\ Defined
  /\ LET T == Merge(Table, thread[t].key)
     IN /\ SetTable(T)
        /\ thread' = Dangle([thread EXCEPT ![t].pc = "ExtraMerge_WLock"],
                            allocated \ T.allocated)
  /\ table_latch' = WUnlock(table_latch)
  /\ UNCHANGED <<last, called, page_latch, lin, pool_vars, bitmap_vars>>

ExtraMerge_WLock(t) == TableWLock(t, "ExtraMerge_WLock", "ExtraMerge")

\* one turn of while (ExtraMerge(transaction, key, value)) {}
ExtraMerge_Body(t) ==
  /\ thread[t].pc = "ExtraMerge"
  /\ Defined
  /\ LET r == ExtraMerge(Table, thread[t].key)
     IN /\ SetTable(r.T)
        /\ IF r.ret
           THEN /\ thread' = Dangle([thread EXCEPT ![t].pc = "ExtraMerge_WLock"],
                                    allocated \ r.T.allocated)
                /\ UNCHANGED <<lin, last>>
           ELSE Return(t, Result(thread[t].ret, {}, 0), FALSE)
  /\ table_latch' = WUnlock(table_latch)
  /\ UNCHANGED <<called, page_latch, pool_vars, bitmap_vars>>

NextConc ==
  \/ \E t \in Threads, key \in Keys : GetValue_RLock(t, key)
  \/ \E t \in Threads : GetValue_RLatch(t)
  \/ \E t \in Threads : GetValue_Bucket(t)
  \/ \E t \in Threads, kv \in Pairs : Insert_RLock(t, kv[1], kv[2])
  \/ \E t \in Threads : Insert_WLatch(t)
  \/ \E t \in Threads : Insert_Bucket(t)
  \/ \E t \in Threads : Insert_IsFull(t)
  \/ \E t \in Threads : SplitInsert_WLock(t)
  \/ \E t \in Threads : SplitInsert_Body(t)
  \/ \E t \in Threads, kv \in Pairs : Remove_RLock(t, kv[1], kv[2])
  \/ \E t \in Threads : Remove_WLatch(t)
  \/ \E t \in Threads : Remove_Bucket(t)
  \/ \E t \in Threads : Remove_IsEmpty(t)
  \/ \E t \in Threads : Merge_WLock(t)
  \/ \E t \in Threads : Merge_Body(t)
  \/ \E t \in Threads : ExtraMerge_WLock(t)
  \/ \E t \in Threads : ExtraMerge_Body(t)

SpecConc == Init /\ [][NextConc]_vars

\* SplitInsert_Body as far as the position of thread t goes: SplitInsert
\* always returns, whatever it does to the table
SplitInsert_Returns(t) ==
  /\ thread[t].pc = "SplitInsert"
  /\ Defined \/ ~IsFull(pages[KeyToPageId(thread[t].key, dir_page)])
  /\ thread' = [thread EXCEPT ![t] = [IdleThread EXCEPT !.calls = thread[t].calls + 1]]

\* a step of thread t inside the call it has started
Step(t) ==
  \/ GetValue_RLatch(t)
  \/ GetValue_Bucket(t)
  \/ Insert_WLatch(t)
  \/ Insert_Bucket(t)
  \/ Insert_IsFull(t)
  \/ SplitInsert_WLock(t)
  \/ SplitInsert_Returns(t)
  \/ Remove_WLatch(t)
  \/ Remove_Bucket(t)
  \/ Remove_IsEmpty(t)
  \/ Merge_WLock(t)
  \/ Merge_Body(t)
  \/ ExtraMerge_WLock(t)
  \/ ExtraMerge_Body(t)


\* ------------------------------- two concurrent inserts into a full bucket
\* the tables reached from a new table by n Insert calls
RECURSIVE TablesAfterInserts(_)
TablesAfterInserts(n) ==
  IF n = 0 THEN {NewTable}
  ELSE {Insert(T, kv[1], kv[2], NoOob).T : T \in TablesAfterInserts(n - 1), kv \in Pairs}

\* the initial bucket is full and was never split
FullUnsplit(T) == GetGlobalDepth(T.dir) = 0 /\ IsFull(T.pages[GetBucketPageId(T.dir, 0)])

\* The table holds one full bucket; every thread has one call left.
InitTwoInserts ==
  /\ \E T \in {U \in TablesAfterInserts(BUCKET_ARRAY_SIZE) : FullUnsplit(U)} :
       /\ dir_page = T.dir
       /\ pages = T.pages
       /\ allocated = T.allocated
       /\ lin = {[set |-> Live(T), st |-> [t \in Threads |-> NotCalled]]}
  /\ last = NoCall
  /\ called = {}
  /\ thread = [t \in Threads |-> [IdleThread EXCEPT !.calls = MaxCalls - 1]]
  /\ table_latch = NoLatch
  /\ page_latch = [p \in PageIds |-> NoLatch]
  /\ PoolIdle
  /\ BitmapIdle

\* thread t calls Insert of a new pair while the bucket is full and unsplit,
\* with a key no other thread is inserting
TwoInserts_RLock(t, key, value) ==
  /\ FullUnsplit(Table)
  /\ <<key, value>> \notin LivePairs
  /\ \A u \in Threads \ {t} : thread[u].op = "Insert" => thread[u].key # key
  /\ Insert_RLock(t, key, value)

NextTwoInserts ==
  \/ \E t \in Threads, kv \in Pairs : TwoInserts_RLock(t, kv[1], kv[2])
  \/ \E t \in Threads : Insert_WLatch(t)
  \/ \E t \in Threads : Insert_Bucket(t)
  \/ \E t \in Threads : Insert_IsFull(t)
  \/ \E t \in Threads : SplitInsert_WLock(t)
  \/ \E t \in Threads : SplitInsert_Body(t)

SpecTwoInserts == InitTwoInserts /\ [][NextTwoInserts]_vars

\* every thread has made its call or is in it
AllCalled == \A t \in Threads : thread[t].pc # "idle" \/ thread[t].calls = MaxCalls

\* every thread has made its calls and returned
AllReturned == \A t \in Threads : thread[t].pc = "idle" /\ thread[t].calls = MaxCalls

\* this step is the return of a call
Returns == \E t \in Threads : thread[t].pc # "idle" /\ thread'[t].pc = "idle"

\* --------------------- inserts of disjoint key ranges, removes of other pairs
\* the keys thread t inserts
KeyRange(t) == {key \in Keys : key % NumThreads = t - 1}

\* The table was filled by BUCKET_ARRAY_SIZE + 1 Insert calls; called holds the
\* pairs stored then.  The threads insert pairs that were not stored then and
\* remove pairs that were.
InitInsertRemove ==
  /\ \E T \in TablesAfterInserts(BUCKET_ARRAY_SIZE + 1) :
       /\ dir_page = T.dir /\ pages = T.pages /\ allocated = T.allocated
       /\ called = Live(T)
       /\ lin = {[set |-> Live(T), st |-> [t \in Threads |-> NotCalled]]}
  /\ last = NoCall
  /\ thread = [t \in Threads |-> IdleThread]
  /\ table_latch = NoLatch
  /\ page_latch = [p \in PageIds |-> NoLatch]
  /\ PoolIdle
  /\ BitmapIdle

InsertRemove_Insert(t, key, value) ==
  /\ key \in KeyRange(t)
  /\ <<key, value>> \notin called
  /\ Insert_RLock(t, key, value)

InsertRemove_Remove(t, key, value) ==
  /\ <<key, value>> \in called
  /\ Remove_RLock(t, key, value)

NextInsertRemove ==
  \/ \E t \in Threads, key \in Keys : GetValue_RLock(t, key)
  \/ \E t \in Threads : GetValue_RLatch(t)
  \/ \E t \in Threads : GetValue_Bucket(t)
  \/ \E t \in Threads, kv \in Pairs : InsertRemove_Insert(t, kv[1], kv[2])
  \/ \E t \in Threads : Insert_WLatch(t)
  \/ \E t \in Threads : Insert_Bucket(t)
  \/ \E t \in Threads : Insert_IsFull(t)
  \/ \E t \in Threads : SplitInsert_WLock(t)
  \/ \E t \in Threads : SplitInsert_Body(t)
  \/ \E t \in Threads, kv \in Pairs : InsertRemove_Remove(t, kv[1], kv[2])
  \/ \E t \in Threads : Remove_WLatch(t)
  \/ \E t \in Threads : Remove_Bucket(t)
  \/ \E t \in Threads : Remove_IsEmpty(t)
  \/ \E t \in Threads : Merge_WLock(t)
  \/ \E t \in Threads : Merge_Body(t)
  \/ \E t \in Threads : ExtraMerge_WLock(t)
  \/ \E t \in Threads : ExtraMerge_Body(t)

SpecInsertRemove == InitInsertRemove /\ [][NextInsertRemove]_vars

\* the pairs GetValue returns, over all keys
Retrievable ==
  UNION {{<<key, v>> : v \in SeqToSet(TableGetValue(Table, key).result)} : key \in Keys}

\* ------------------------------------------- one call per thread, fairly
\* the threads inside a call
Started == {t \in Threads : thread[t].pc # "idle"}

\* The table was filled by BUCKET_ARRAY_SIZE + 1 Insert calls that stored as
\* many pairs (one bucket is full, the directory has split); every thread
\* makes its last call.
InitLastCall ==
  /\ \E T \in {U \in TablesAfterInserts(BUCKET_ARRAY_SIZE + 1) :
                 Cardinality(Live(U)) = BUCKET_ARRAY_SIZE + 1} :
       /\ dir_page = T.dir /\ pages = T.pages /\ allocated = T.allocated
       /\ lin = {[set |-> Live(T), st |-> [t \in Threads |-> NotCalled]]}
  /\ last = NoCall
  /\ called = {}
  /\ thread = [t \in Threads |-> [IdleThread EXCEPT !.calls = MaxCalls - 1]]
  /\ table_latch = NoLatch
  /\ page_latch = [p \in PageIds |-> NoLatch]
  /\ PoolIdle
  /\ BitmapIdle

\* Fair scheduling: a thread inside a call that can take its next step, and
\* stays able to, takes it.
SpecLastCallFair ==
  InitLastCall /\ [][NextConc]_vars /\ \A t \in Threads : WF_thread(Step(t))

\* ------------------------------------------------- buffer pool calls
\* A call a table operation makes to the buffer pool.  For UnpinPage, written
\* tells whether the operation changed the content of the page between pinning
\* and unpinning it.
FetchPage(page_id) ==
  [call |-> "FetchPage", page_id |-> page_id, is_dirty |-> FALSE, written |-> FALSE]

NewPage(page_id) ==
  [call |-> "NewPage", page_id |-> page_id, is_dirty |-> FALSE, written |-> FALSE]

UnpinPage(page_id, is_dirty, written) ==
  [call |-> "UnpinPage", page_id |-> page_id, is_dirty |-> is_dirty, written |-> written]

\* NewPage when the buffer pool has no frame to give: it returns nullptr
NewPageNull ==
  [call |-> "NewPage_nullptr", page_id |-> DIRECTORY_PAGE_ID, is_dirty |-> FALSE,
   written |-> FALSE]

PoolDeletePage(page_id) ==
  [call |-> "DeletePage", page_id |-> page_id, is_dirty |-> FALSE, written |-> FALSE]

\* the pin counts after one call: FetchPage and NewPage pin, UnpinPage unpins
\* a pinned page and returns false for a page that is not pinned
PoolCall(pins, c) ==
  IF c.call \in {"FetchPage", "NewPage"} THEN [pins EXCEPT ![c.page_id] = @ + 1]
  ELSE IF c.call = "UnpinPage" /\ pins[c.page_id] > 0 THEN [pins EXCEPT ![c.page_id] = @ - 1]
  ELSE pins

RECURSIVE PoolCalls(_, _)
PoolCalls(pins, calls) ==
  IF calls = <<>> THEN pins ELSE PoolCalls(PoolCall(pins, Head(calls)), Tail(calls))

\* ... after the calls of a sequence of operations
RECURSIVE PoolOperations(_, _)
PoolOperations(pins, ops) ==
  IF ops = <<>> THEN pins ELSE PoolOperations(PoolCalls(pins, Head(ops)), Tail(ops))

\* Below, the calls of a table operation are a sequence; the calls of a call
\* of the table interface are the sequence of those of the operations it runs
\* (Insert then SplitInsert, Remove then Merge then ExtraMerge ...).

\* the constructor
ConstructorCalls ==
  LET bucket_page_id == NewPageId({})
  IN <<NewPage(DIRECTORY_PAGE_ID), NewPage(bucket_page_id),
       UnpinPage(bucket_page_id, FALSE, FALSE), UnpinPage(DIRECTORY_PAGE_ID, TRUE, TRUE)>>

GetValueCalls(T, key) ==
  LET bucket_page_id == KeyToPageId(key, T.dir)
  IN <<FetchPage(DIRECTORY_PAGE_ID), FetchPage(bucket_page_id),
       UnpinPage(bucket_page_id, FALSE, FALSE), UnpinPage(DIRECTORY_PAGE_ID, FALSE, FALSE)>>

SplitInsertCalls(T, key, value, oob) ==
  LET old_bucket_page_id == KeyToPageId(key, T.dir)
      old_bucket_page == T.pages[old_bucket_page_id]
      new_bucket_page_id == NewPageId(T.allocated)
      T1 == SplitInsert(T, key, value, oob).T
  IN IF ~IsFull(old_bucket_page)
     THEN <<FetchPage(DIRECTORY_PAGE_ID), FetchPage(old_bucket_page_id),
            UnpinPage(old_bucket_page_id, TRUE, T1.pages[old_bucket_page_id] # old_bucket_page),
            UnpinPage(DIRECTORY_PAGE_ID, FALSE, FALSE)>>
     ELSE <<FetchPage(DIRECTORY_PAGE_ID), FetchPage(old_bucket_page_id),
            NewPage(new_bucket_page_id),
            UnpinPage(old_bucket_page_id, TRUE, T1.pages[old_bucket_page_id] # old_bucket_page),
            UnpinPage(new_bucket_page_id, TRUE, T1.pages[new_bucket_page_id] # EmptyPage),
            UnpinPage(DIRECTORY_PAGE_ID, TRUE, T1.dir # T.dir)>>

\* Insert up to table_latch_.RUnlock()
InsertBucketCalls(T, key, value) ==
  LET bucket_page_id == KeyToPageId(key, T.dir)
      r == BucketInsert(T.pages[bucket_page_id], key, value)
  IN <<FetchPage(DIRECTORY_PAGE_ID), FetchPage(bucket_page_id),
       UnpinPage(bucket_page_id, TRUE, r.page # T.pages[bucket_page_id]),
       UnpinPage(DIRECTORY_PAGE_ID, FALSE, FALSE)>>

InsertCalls(T, key, value, oob) ==
  LET bucket_page_id == KeyToPageId(key, T.dir)
      r == BucketInsert(T.pages[bucket_page_id], key, value)
      T1 == [T EXCEPT !.pages[bucket_page_id] = r.page]
  IN IF ~r.ret /\ IsFull(T1.pages[bucket_page_id])
     THEN <<InsertBucketCalls(T, key, value), SplitInsertCalls(T1, key, value, oob)>>
     ELSE <<InsertBucketCalls(T, key, value)>>

\* Merge that calls DeletePage while it still has the bucket page pinned
MergeCalls_DeletePinned(T, key) ==
  LET bucket_page_id == KeyToPageId(key, T.dir)
      merge_occur == Merge(T, key) # T
  IN <<FetchPage(DIRECTORY_PAGE_ID), FetchPage(bucket_page_id)>>
     \o (IF merge_occur
         THEN <<PoolDeletePage(bucket_page_id), UnpinPage(bucket_page_id, FALSE, FALSE)>>
         ELSE <<UnpinPage(bucket_page_id, FALSE, FALSE)>>)
     \o <<UnpinPage(DIRECTORY_PAGE_ID, TRUE, merge_occur)>>

MergeCalls(T, key) ==
  LET bucket_page_id == KeyToPageId(key, T.dir)
      merge_occur == Merge(T, key) # T
  IN <<FetchPage(DIRECTORY_PAGE_ID), FetchPage(bucket_page_id)>>
     \o (IF merge_occur
         THEN <<UnpinPage(bucket_page_id, FALSE, FALSE), PoolDeletePage(bucket_page_id)>>
         ELSE <<UnpinPage(bucket_page_id, FALSE, FALSE)>>)
     \o <<UnpinPage(DIRECTORY_PAGE_ID, TRUE, merge_occur)>>

ExtraMergeCalls(T, key) ==
  LET bucket_page_id == KeyToPageId(key, T.dir)
      index == KeyToDirectoryIndex(key, T.dir)
      extra_bucket_page_id == GetBucketPageId(T.dir, GetSplitImageIndex(T.dir, index))
      extra_merge_occur == ExtraMerge(T, key).ret
  IN <<FetchPage(DIRECTORY_PAGE_ID)>>
     \o (IF GetLocalDepth(T.dir, index) > 0
         THEN <<FetchPage(extra_bucket_page_id)>>
              \o (IF extra_merge_occur
                  THEN <<UnpinPage(extra_bucket_page_id, FALSE, FALSE),
                         PoolDeletePage(extra_bucket_page_id)>>
                  ELSE <<UnpinPage(extra_bucket_page_id, FALSE, FALSE)>>)
         ELSE <<>>)
     \o <<UnpinPage(bucket_page_id, FALSE, FALSE),
          UnpinPage(DIRECTORY_PAGE_ID, TRUE, extra_merge_occur)>>

\* while (ExtraMerge(transaction, key, value)) {}
RECURSIVE ExtraMergeLoopCalls(_, _)
ExtraMergeLoopCalls(T, key) ==
  LET r == ExtraMerge(T, key)
  IN <<ExtraMergeCalls(T, key)>> \o (IF r.ret THEN ExtraMergeLoopCalls(r.T, key) ELSE <<>>)

RemoveCalls(T, key, value) ==
  LET bucket_page_id == KeyToPageId(key, T.dir)
      r == BucketRemove(T.pages[bucket_page_id], key, value)
      T1 == [T EXCEPT !.pages[bucket_page_id] = r.page]
      calls == <<FetchPage(DIRECTORY_PAGE_ID), FetchPage(bucket_page_id),
                 UnpinPage(bucket_page_id, TRUE, r.page # T.pages[bucket_page_id]),
                 UnpinPage(DIRECTORY_PAGE_ID, FALSE, FALSE)>>
  IN IF r.ret /\ IsEmpty(T1.pages[bucket_page_id])
     THEN <<calls, MergeCalls(T1, key)>> \o ExtraMergeLoopCalls(Merge(T1, key), key)
     ELSE <<calls>>

\* GetGlobalDepth and VerifyIntegrity: the UnpinPage call is the argument of
\* assert, which a build with NDEBUG does not evaluate
AssertUnpinCalls(no_assert) ==
  <<FetchPage(DIRECTORY_PAGE_ID)>>
  \o (IF no_assert THEN <<>> ELSE <<UnpinPage(DIRECTORY_PAGE_ID, FALSE, FALSE)>>)

GetGlobalDepthCalls(no_assert) == AssertUnpinCalls(no_assert)

VerifyIntegrityCalls(no_assert) == AssertUnpinCalls(no_assert)

\* ------------------------------------ the table operations and the pool
\* The table operations called one after the other, with the calls each makes
\* to the buffer pool.  Calls that would grow the directory past its arrays
\* and calls that would pin the directory page more than MaxPins times are
\* not followed.
MaxPins == 2

InitPool ==
  /\ dir_page = NewTable.dir
  /\ pages = NewTable.pages
  /\ allocated = NewTable.allocated
  /\ last = NoCall
  /\ called = {}
  /\ thread = [t \in Threads |-> IdleThread]
  /\ table_latch = NoLatch
  /\ page_latch = [p \in PageIds |-> NoLatch]
  /\ lin = {[set |-> {}, st |-> [t \in Threads |-> NotCalled]]}
  /\ pin_count = PoolCalls([p \in AllPageIds |-> 0], ConstructorCalls)
  /\ pool_calls = <<ConstructorCalls>>
  /\ ndebug \in BOOLEAN
  /\ BitmapIdle

\* whether Insert(key, value), called now, grows the directory past MAX_DEPTH
InsertOverflows(key, value) ==
  /\ InsertSplits(key, value)
  /\ GetLocalDepth(dir_page, KeyToDirectoryIndex(key, dir_page)) = MAX_DEPTH

\* the process has not crashed
Running == \A t \in Threads : thread[t].pc # "crashed"

Pool(ops) ==
  /\ pin_count' = PoolOperations(pin_count, ops)
  /\ pool_calls' = ops
  /\ UNCHANGED <<called, conc_vars, ndebug, bitmap_vars>>

PoolGetValue(key) ==
  /\ Running
  /\ LET r == TableGetValue(Table, key)
     IN last' = [op |-> "GetValue", key |-> key, value |-> 0, ret |-> r.ret,
                 split |-> FALSE]
  /\ Pool(<<GetValueCalls(Table, key)>>)
  /\ UNCHANGED table_vars

PoolInsert(key, value) ==
  /\ Running
  /\ ~InsertOverflows(key, value)
  /\ LET r == Insert(Table, key, value, NoOob)
     IN /\ SetTable(r.T)
        /\ last' = [op |-> "Insert", key |-> key, value |-> value, ret |-> r.ret,
                    split |-> r.split]
  /\ Pool(InsertCalls(Table, key, value, NoOob))

PoolRemove(key, value) ==
  /\ Running
  /\ LET r == Remove(Table, key, value)
     IN /\ SetTable(r.T)
        /\ last' = [op |-> "Remove", key |-> key, value |-> value, ret |-> r.ret,
                    split |-> FALSE]
  /\ Pool(RemoveCalls(Table, key, value))

PoolGetGlobalDepth ==
  /\ Running
  /\ pin_count[DIRECTORY_PAGE_ID] < MaxPins
  /\ last' = [op |-> "GetGlobalDepth", key |-> 0, value |-> 0, ret |-> TRUE,
              split |-> FALSE]
  /\ Pool(<<GetGlobalDepthCalls(ndebug)>>)
  /\ UNCHANGED table_vars

PoolVerifyIntegrity ==
  /\ Running
  /\ pin_count[DIRECTORY_PAGE_ID] < MaxPins
  /\ last' = [op |-> "VerifyIntegrity", key |-> 0, value |-> 0, ret |-> TRUE,
              split |-> FALSE]
  /\ Pool(<<VerifyIntegrityCalls(ndebug)>>)
  /\ UNCHANGED table_vars

\* Insert whose SplitInsert gets nullptr from NewPage.  CreateBucketPage calls
\* GetData() on it and new_bucket_page_id is left as it was, uninitialized:
\* SplitInsert goes on to write the directory with whatever id that is, latches
\* the old bucket page, and the process ends at new_bucket_page->WLatch()
\* through the null pointer, inside the call.
PoolInsert_NewPageNull(key, value) ==
  LET bucket_page_id == KeyToPageId(key, dir_page)
  IN /\ Running
     /\ InsertSplits(key, value)
     /\ ~InsertOverflows(key, value)
     /\ \E new_bucket_page_id \in AllPageIds :
          dir_page' = SplitDirectory(dir_page, key, new_bucket_page_id)
     /\ thread' = [thread EXCEPT ![1] =
                     [IdleThread EXCEPT !.pc = "crashed", !.op = "Insert", !.key = key,
                                        !.value = value, !.bucket_page_id = bucket_page_id]]
     /\ table_latch' = WLock(table_latch, 1)
     /\ page_latch' = [page_latch EXCEPT ![bucket_page_id] = WLock(@, 1)]
     /\ LET ops == <<InsertBucketCalls(Table, key, value),
                     <<FetchPage(DIRECTORY_PAGE_ID), FetchPage(bucket_page_id), NewPageNull>> >>
        IN /\ pin_count' = PoolOperations(pin_count, ops)
           /\ pool_calls' = ops
     /\ UNCHANGED <<pages, allocated, last, called, lin, ndebug, bitmap_vars>>

NextPool ==
  \/ \E key \in Keys : PoolGetValue(key)
  \/ \E kv \in Pairs : PoolInsert(kv[1], kv[2])
  \/ \E kv \in Pairs : PoolRemove(kv[1], kv[2])
  \/ PoolGetGlobalDepth
  \/ PoolVerifyIntegrity

SpecPool == InitPool /\ [][NextPool]_vars

\* Insert calls with a buffer pool that can run out of frames
NextNoPage ==
  \/ \E kv \in Pairs : PoolInsert(kv[1], kv[2])
  \/ \E kv \in Pairs : PoolInsert_NewPageNull(kv[1], kv[2])

InitNoPage == InitPool /\ ~ndebug

SpecNoPage == InitNoPage /\ [][NextNoPage]_vars

\* whether NewPage returned nullptr in the last call
NewPageFailed ==
  \E i \in DOMAIN pool_calls : \E j \in DOMAIN pool_calls[i] :
    pool_calls[i][j] = NewPageNull

\* how often the calls of an operation pin, and unpin, page p
Pinned(calls, p) ==
  Cardinality({i \in DOMAIN calls :
                 calls[i].call \in {"FetchPage", "NewPage"} /\ calls[i].page_id = p})

Unpinned(calls, p) ==
  Cardinality({i \in DOMAIN calls : calls[i].call = "UnpinPage" /\ calls[i].page_id = p})

\* ------------------------------------------------- one bucket page alone
\* The operations of a bucket page called one after the other on the bucket
\* page of a new table; the directory and the other pages are left alone.
BucketPage == pages[NewPageId({})]

SetBucketPage(page) == pages' = [pages EXCEPT ![NewPageId({})] = page]

Bucket_Insert(key, value) ==
  /\ LET r == BucketInsert(BucketPage, key, value)
     IN /\ SetBucketPage(r.page)
        /\ last' = [op |-> "Insert", key |-> key, value |-> value, ret |-> r.ret,
                    split |-> FALSE]
  /\ UNCHANGED <<dir_page, allocated, called, conc_vars, pool_vars, bitmap_vars>>

Bucket_Remove(key, value) ==
  /\ LET r == BucketRemove(BucketPage, key, value)
     IN /\ SetBucketPage(r.page)
        /\ last' = [op |-> "Remove", key |-> key, value |-> value, ret |-> r.ret,
                    split |-> FALSE]
  /\ UNCHANGED <<dir_page, allocated, called, conc_vars, pool_vars, bitmap_vars>>

Bucket_RemoveAt(bucket_idx) ==
  /\ SetBucketPage(RemoveAt(BucketPage, bucket_idx))
  /\ last' = [op |-> "RemoveAt", key |-> bucket_idx, value |-> 0, ret |-> TRUE,
              split |-> FALSE]
  /\ UNCHANGED <<dir_page, allocated, called, conc_vars, pool_vars, bitmap_vars>>

NextBucket ==
  \/ \E kv \in Pairs : Bucket_Insert(kv[1], kv[2])
  \/ \E kv \in Pairs : Bucket_Remove(kv[1], kv[2])
  \/ \E bucket_idx \in Slots : Bucket_RemoveAt(bucket_idx)

SpecBucket == Init /\ [][NextBucket]_vars

\* the slots of a page that are not readable: tombstones and never-used slots
NonReadable(page) == {i \in Slots : ~IsReadable(page, i)}

\* whether a readable slot of the page holds exactly the pair
Holds(page, key, value) ==
  \E i \in Slots : IsReadable(page, i) /\ page.array[i] = <<key, value>>

\* slot i is the same in both pages: its pair and its two bits
SameSlot(page, other, i) ==
  /\ page.array[i] = other.array[i]
  /\ IsOccupied(page, i) = IsOccupied(other, i)
  /\ IsReadable(page, i) = IsReadable(other, i)

\* ------------------------------------------ the readable_ bitmap alone
\* The readable_ bitmap of a bucket page of BitmapSlots slots, as Insert
\* (SetReadable) and Remove (SetUnreadable) change it bit by bit, and the calls
\* of NumReadable on it.  The platform's char is either signed or unsigned.
BitmapBits == 0 .. (BitmapSlots - 1)

InitBitmap ==
  /\ dir_page = NewTable.dir
  /\ pages = NewTable.pages
  /\ allocated = NewTable.allocated
  /\ last = NoCall
  /\ called = {}
  /\ thread = [t \in Threads |-> IdleThread]
  /\ table_latch = NoLatch
  /\ page_latch = [p \in PageIds |-> NoLatch]
  /\ lin = {[set |-> {}, st |-> [t \in Threads |-> NotCalled]]}
  /\ PoolIdle
  /\ readable_ = NoBits
  /\ char_is_signed \in BOOLEAN
  /\ num_readable = 0

\* Insert of a new pair: SetReadable(insert_index), the lowest slot not readable
Bitmap_Insert(insert_index) ==
  /\ ~TestBit(readable_, insert_index)
  /\ \A i \in 0 .. (insert_index - 1) : TestBit(readable_, i)
  /\ readable_' = OrBit(readable_, insert_index)
  /\ UNCHANGED <<seq_vars, conc_vars, pool_vars, char_is_signed, num_readable>>

\* Remove of the pair of a readable slot: SetUnreadable(i)
Bitmap_Remove(bucket_idx) ==
  /\ TestBit(readable_, bucket_idx)
  /\ readable_' = SetUnreadable([readable |-> readable_], bucket_idx).readable
  /\ UNCHANGED <<seq_vars, conc_vars, pool_vars, char_is_signed, num_readable>>

Bitmap_NumReadable ==
  /\ num_readable' = NumReadable(readable_, BitmapSlots, char_is_signed)
  /\ last' = [op |-> "NumReadable", key |-> 0, value |-> 0, ret |-> TRUE,
              split |-> FALSE]
  /\ UNCHANGED <<dir_page, pages, allocated, called, conc_vars, pool_vars,
                 readable_, char_is_signed>>

NextBitmap ==
  \/ \E insert_index \in BitmapBits : Bitmap_Insert(insert_index)
  \/ \E bucket_idx \in BitmapBits : Bitmap_Remove(bucket_idx)
  \/ Bitmap_NumReadable

SpecBitmap == InitBitmap /\ [][NextBitmap]_vars

\* the slots whose readable bit is set
ReadableBits == {i \in BitmapBits : TestBit(readable_, i)}

\* ------------------------------------- accesses to bucket page contents
\* a call of a bucket page method on the page with this id; write tells whether
\* the method modifies the page
PageAccess(page_id, method, write) ==
  [page_id |-> page_id, method |-> method, write |-> write]

\* The bucket page methods thread t calls in its next step with the latches
\* as they are now, that is before the step itself latches a page: the method
\* calls of the fast paths, bucket_page->IsFull() and bucket_page->IsEmpty()
\* after them (evaluated only when ret allows, by && short circuit), and the
\* first reads of SplitInsert, Merge and ExtraMerge and the Insert of
\* SplitInsert into a bucket that is not full.
NextAccesses(t) ==
  LET th == thread[t]
      index == KeyToDirectoryIndex(th.key, dir_page)
      bucket_page_id == KeyToPageId(th.key, dir_page)
      local_depth == GetLocalDepth(dir_page, index)
      extra_bucket_idx == GetSplitImageIndex(dir_page, index)
  IN CASE th.pc = "GetValue_Bucket" -> {PageAccess(th.bucket_page_id, "GetValue", FALSE)}
       [] th.pc = "Insert_Bucket" -> {PageAccess(th.bucket_page_id, "Insert", TRUE)}
       [] th.pc = "Insert_IsFull" ->
            IF ~th.ret THEN {PageAccess(th.bucket_page_id, "IsFull", FALSE)} ELSE {}
       [] th.pc = "Remove_Bucket" -> {PageAccess(th.bucket_page_id, "Remove", TRUE)}
       [] th.pc = "Remove_IsEmpty" ->
            IF th.ret THEN {PageAccess(th.bucket_page_id, "IsEmpty", FALSE)} ELSE {}
       [] th.pc = "SplitInsert" ->
            {PageAccess(bucket_page_id, "IsFull", FALSE)}
            \cup (IF ~IsFull(pages[bucket_page_id])
                  THEN {PageAccess(bucket_page_id, "Insert", TRUE)} ELSE {})
       [] th.pc = "Merge" ->
            IF local_depth > 0 THEN {PageAccess(bucket_page_id, "IsEmpty", FALSE)} ELSE {}
       [] th.pc = "ExtraMerge" ->
            IF local_depth > 0 /\ GetLocalDepth(dir_page, extra_bucket_idx) = local_depth
            THEN {PageAccess(GetBucketPageId(dir_page, extra_bucket_idx), "IsEmpty", FALSE)}
            ELSE {}
       [] OTHER -> {}

\* thread t holds the latch of the page of access a, exclusively if a writes
HoldsPageLatch(t, a) ==
  \/ page_latch[a.page_id].writer = t
  \/ ~a.write /\ t \in page_latch[a.page_id].readers

\* The bucket pages thread t has pinned: a fast path pins its bucket page from
\* FetchBucketPage, right after table_latch_.RLock(), to the UnpinPage that
\* follows the call of the bucket page method.  SplitInsert, Merge and
\* ExtraMerge pin and unpin within their step.
PinnedBy(t) ==
  IF thread[t].pc \in {"GetValue_RLatch", "GetValue_Bucket", "Insert_WLatch",
                       "Insert_Bucket", "Remove_WLatch", "Remove_Bucket"}
  THEN {thread[t].bucket_page_id} ELSE {}

\* How many further pairs a bucket page accepts: Insert is called with pairs
\* the page does not hold, <<MaxKey + n, 0>>, <<MaxKey + n + 1, 0>>, ..., until
\* it returns false.
RECURSIVE AcceptsFrom(_, _)
AcceptsFrom(page, n) ==
  LET r == BucketInsert(page, MaxKey + n, 0)
  IN IF r.ret THEN 1 + AcceptsFrom(r.page, n + 1) ELSE 0

FreeCapacity(page) == AcceptsFrom(page, 1)

\* the slots of a page that were used and are free again
Tombstones(page) == {i \in Slots : IsOccupied(page, i) /\ ~IsReadable(page, i)}

\* the slots of a page that were never used
NeverUsed(page) == {i \in Slots : ~IsOccupied(page, i)}

\* ------------------------------------------------- the shift of Merge
\* a uint32_t value below 2^16, as the two 16-bit halves of its 32 bits
Uint32(n) == [hi |-> 0, lo |-> n]

\* Merge, line 274: the shift amount local_depth - 1 of
\* same_mask = local_mask ^ (1 << (local_depth - 1)), computed in uint32_t
\* before local_depth > 0 is tested: for local_depth = 0 it wraps to 2^32 - 1.
SameMaskShift(T, key) ==
  IntMinusOne(Uint32(GetLocalDepth(T.dir, KeyToDirectoryIndex(key, T.dir))))

\* a shift amount the language defines for a 32-bit int
ValidShift(amount) == amount.hi = 0 /\ amount.lo <= 31

\* ------------------------------------------------------------- claims

\* C1: once Insert(k,v) has been called and Remove(k,v) has not been called
\* since, GetValue(k) returns true and its result contains v.
C1_InsertedIsFound ==
  \A kv \in called :
    LET r == TableGetValue(Table, kv[1])
    IN r.ret /\ kv[2] \in SeqToSet(r.result)

\* C2: Insert(k,v) returns false only when (k,v) is already stored; an Insert
\* of a new pair stores it and returns true, however often it has to split.
C2_InsertFalseOnlyOnDuplicate ==
  [][last'.op = "Insert" =>
       /\ (~last'.ret => LastPair' \in LivePairs)
       /\ (LastPair' \notin LivePairs => last'.ret /\ LastPair' \in LivePairs')]_vars

\* C3: Insert(k,v) of a stored pair returns false and leaves the index as it
\* was: same live pairs, same depths, same bucket page ids, no page allocated,
\* no split.
C3_DuplicateInsertChangesNothing ==
  [][(last'.op = "Insert" /\ LastPair' \in LivePairs) =>
       /\ ~last'.ret
       /\ ~last'.split
       /\ LivePairs' = LivePairs
       /\ dir_page' = dir_page
       /\ allocated' = allocated]_vars

\* what C4 asks of a step, when the step is a Remove call
RemoveExact ==
  last'.op = "Remove" =>
    /\ last'.ret <=> LastPair' \in LivePairs
    /\ LivePairs' = LivePairs \ {LastPair'}
    /\ ~RemoveReturns(last.key, last.value)'

\* C4: Remove(k,v) returns true iff (k,v) is stored when it is called; after
\* it exactly that pair is gone and every other stored pair is still stored,
\* and a repeated Remove(k,v) returns false.
C4_RemoveExact == [][RemoveExact]_vars

\* C5: GetValue(k) appends exactly the values v with (k,v) stored, each once,
\* and returns true iff it appended something.
C5_GetValueExact ==
  \A key \in Keys :
    LET r == TableGetValue(Table, key)
        stored == {kv[2] : kv \in {x \in LivePairs : x[1] = key}}
    IN /\ SeqToSet(r.result) = stored
       /\ Len(r.result) = Cardinality(stored)
       /\ r.ret <=> stored # {}

\* C6: every directory slot i in [0, 2^global_depth) has
\* 0 <= local_depths[i] <= global_depth.
C6_LocalDepthBounded ==
  \A i \in DirSlots :
    0 <= GetLocalDepth(dir_page, i) /\ GetLocalDepth(dir_page, i) <= GetGlobalDepth(dir_page)

\* C7: every bucket page the directory refers to is referred to by exactly
\* 2^(global_depth - local_depth) slots, all with the same local depth.
C7_BucketSlotCount ==
  \A i \in DirSlots :
    LET same == {j \in DirSlots : GetBucketPageId(dir_page, j) = GetBucketPageId(dir_page, i)}
        d == GetLocalDepth(dir_page, i)
    IN /\ \A j \in same : GetLocalDepth(dir_page, j) = d
       /\ d <= GetGlobalDepth(dir_page)
       /\ Cardinality(same) = Shl(GetGlobalDepth(dir_page) - d)

\* C8: two slots with the same local depth d and the same low d bits hold the
\* same bucket page id.
C8_SplitImageConsistency ==
  \A i, j \in DirSlots :
    (/\ GetLocalDepth(dir_page, i) = GetLocalDepth(dir_page, j)
     /\ BitAnd(i, GetLocalDepthMask(dir_page, i)) = BitAnd(j, GetLocalDepthMask(dir_page, j)))
    => GetBucketPageId(dir_page, i) = GetBucketPageId(dir_page, j)

\* C9: the global depth never exceeds MAX_DEPTH, so no directory slot with
\* index >= 2^MAX_DEPTH is written.
C9_GlobalDepthBounded == GetGlobalDepth(dir_page) <= MAX_DEPTH

\* C10: the results of the calls of every interleaving are those of the same
\* calls on a set of pairs, each taking effect at one point between its call
\* and its return: some order of taking effect explains the results so far.
C10_Linearizable == lin # {}

\* C11: when the threads concurrently insert new pairs of distinct keys into
\* the same full, unsplit bucket, every one of the Insert calls returns true,
\* and once they have returned exactly one bucket page was allocated and the
\* directory invariants hold.
C11_TwoInsertsOneSplit ==
  /\ [][(Returns /\ AllCalled) => last'.ret]_vars
  /\ [](AllReturned => /\ Cardinality(allocated) = 2
                       /\ C6_LocalDepthBounded
                       /\ C7_BucketSlotCount
                       /\ C8_SplitImageConsistency)

\* C12: with threads inserting pairs of disjoint key ranges, removing other
\* pairs and calling GetValue, a pair is stored when its Insert returns true,
\* a stored pair that is not one of the removed ones stays stored, and once
\* all threads have finished GetValue returns every such pair and the
\* directory invariants hold.
C12_NoInsertLost ==
  /\ [][(Returns /\ last'.op = "Insert" /\ last'.ret) => LastPair' \in LivePairs']_vars
  /\ [][(LivePairs \ called) \subseteq LivePairs']_vars
  /\ [](AllReturned => /\ (LivePairs \ called) \subseteq Retrievable
                       /\ C6_LocalDepthBounded
                       /\ C7_BucketSlotCount
                       /\ C8_SplitImageConsistency)

\* C13: no reachable state is a deadlock (whenever threads are inside calls
\* one of them can take its next step), and under fair scheduling every call
\* that was started returns.  Stated for the directory within its arrays.
C13_DeadlockFreeCompletion ==
  /\ []((Defined /\ Started # {}) => \E t \in Started : ENABLED Step(t))
  /\ \A t \in Threads : (t \in Started) ~> (t \notin Started \/ ~Defined)

\* a thread waits for the exclusive table latch while another thread, inside
\* a call, holds the table latch shared and a bucket page latch
C13_Witness ==
  \E t \in Started, u \in Started :
    /\ thread[t].pc \in {"SplitInsert_WLock", "Merge_WLock", "ExtraMerge_WLock"}
    /\ ~CanWLock(table_latch)
    /\ u \in table_latch.readers
    /\ page_latch[thread[u].bucket_page_id].writer = u

\* C14: after every table operation each page the operation pinned through
\* FetchPage or NewPage has been unpinned by it exactly as often, and every
\* page has pin count zero.
C14_PinBalance ==
  /\ \A i \in DOMAIN pool_calls : \A p \in AllPageIds :
       Pinned(pool_calls[i], p) > 0 => Unpinned(pool_calls[i], p) = Pinned(pool_calls[i], p)
  /\ \A p \in AllPageIds : pin_count[p] = 0

\* C15: every UnpinPage of a table operation passes is_dirty = true if and
\* only if the operation changed the content of the page between pinning and
\* unpinning it.
C15_DirtyIffWritten ==
  \A i \in DOMAIN pool_calls : \A j \in DOMAIN pool_calls[i] :
    pool_calls[i][j].call = "UnpinPage" =>
      (pool_calls[i][j].is_dirty <=> pool_calls[i][j].written)

\* C16: when NewPage returns nullptr to SplitInsert, the Insert returns false,
\* no field of the directory has changed, the table latch is free, no page is
\* pinned, and the directory invariants hold.
C16_NewPageNullInsertFails ==
  [][NewPageFailed' =>
       /\ Running'
       /\ last'.op = "Insert" /\ ~last'.ret
       /\ dir_page' = dir_page
       /\ table_latch' = NoLatch
       /\ \A p \in AllPageIds : pin_count'[p] = 0
       /\ C6_LocalDepthBounded' /\ C7_BucketSlotCount' /\ C8_SplitImageConsistency']_vars

\* C17: BucketPage::Insert(k,v) returns false if and only if a readable slot
\* already holds exactly (k,v) or the page has no non-readable slot.  Otherwise
\* it stores the pair in the lowest-indexed non-readable slot, sets that slot's
\* occupied and readable bits, changes no other slot, and returns true.
C17_BucketInsert ==
  [][last'.op = "Insert" =>
       LET page == BucketPage
           free == NonReadable(page)
       IN /\ last'.ret = ~(Holds(page, last'.key, last'.value) \/ free = {})
          /\ last'.ret =>
                \E m \in free :
                  /\ \A i \in free : m <= i
                  /\ BucketPage'.array[m] = <<last'.key, last'.value>>
                  /\ IsOccupied(BucketPage', m)
                  /\ IsReadable(BucketPage', m)
                  /\ \A i \in Slots \ {m} : SameSlot(page, BucketPage', i)]_vars

\* Insert has just returned true and its pair is in slot 0, which was a
\* tombstone: the slots after it are readable and hold other pairs
C17_Witness ==
  /\ last.op = "Insert" /\ last.ret
  /\ BucketPage.array[0] = LastPair
  /\ \A i \in Slots \ {0} : IsReadable(BucketPage, i) /\ BucketPage.array[i] # LastPair
  /\ dir_page = NewTable.dir

\* C18: NumReadable() returns exactly the number of slots whose readable bit
\* is set, for every combination of readable bits in the bitmap, and what it
\* returns never exceeds BUCKET_ARRAY_SIZE.
C18_NumReadableExact ==
  [][readable_' = readable_ =>
       /\ num_readable' = Cardinality(ReadableBits)
       /\ num_readable' <= BitmapSlots]_vars

\* On the platforms where char is unsigned NumReadable is exact.
UnsignedCharNumReadableExact ==
  [][(readable_' = readable_ /\ ~char_is_signed) =>
       num_readable' = Cardinality(ReadableBits)]_vars

\* While no byte of the bitmap has its top bit set NumReadable is exact.
TopBitClearNumReadableExact ==
  [][(readable_' = readable_ /\ \A b \in DOMAIN readable_ : readable_[b] < 128) =>
       num_readable' = Cardinality(ReadableBits)]_vars

\* What C19 says of a step in which SplitInsert(key, _) split the bucket the
\* key routed to: old is that bucket, d its local depth, new the bucket page
\* allocated in the step.  A slot of the directory after the step pointed to
\* the old bucket if it, or the slot it mirrors, did so before the step.
SplitPostcondition(key) ==
  LET index == KeyToDirectoryIndex(key, dir_page)
      old == KeyToPageId(key, dir_page)
      d == GetLocalDepth(dir_page, index)
      size == Size(dir_page)
      after == 0 .. (Size(dir_page') - 1)
      pointed == {i \in after : GetBucketPageId(dir_page, i % size) = old}
      bit(i) == (i \div Shl(d)) % 2
  IN /\ d = GetGlobalDepth(dir_page) =>
          /\ GetGlobalDepth(dir_page') = GetGlobalDepth(dir_page) + 1
          /\ \A j \in size .. (2 * size - 1) :
                /\ GetLocalDepth(dir_page', j) = GetLocalDepth(dir_page', j - size)
                /\ \/ GetBucketPageId(dir_page', j) = GetBucketPageId(dir_page', j - size)
                   \/ j - size \in pointed
     /\ d # GetGlobalDepth(dir_page) => Size(dir_page') = size
     /\ \E new \in allocated' \ allocated : \E b \in {0, 1} :
          /\ \A i \in pointed :
                GetBucketPageId(dir_page', i) = IF bit(i) = b THEN old ELSE new
          /\ \E i \in pointed : bit(i) = b
          /\ \E i \in pointed : bit(i) # b
     /\ \A i \in pointed : GetLocalDepth(dir_page', i) = d + 1
     /\ \A i \in after \ pointed :
          /\ GetBucketPageId(dir_page', i) = GetBucketPageId(dir_page, i % size)
          /\ GetLocalDepth(dir_page', i) = GetLocalDepth(dir_page, i % size)
     /\ dir_page = NewTable.dir =>
          /\ GetGlobalDepth(dir_page') = 1
          /\ Size(dir_page') = 2
          /\ GetLocalDepth(dir_page', 0) = 1
          /\ GetLocalDepth(dir_page', 1) = 1

\* C19: whenever SplitInsert splits a full bucket of local depth d, the global
\* depth grows by exactly 1 and the upper half mirrors the lower half if d is
\* the global depth, else the directory size is unchanged; the slots that
\* pointed to the old bucket are partitioned by bit d of their index between
\* the old and the new bucket and have local depth d+1, every other slot keeps
\* its bucket page id and local depth; the first overflow of the initial
\* bucket yields global depth 1, directory size 2 and local depths 1 and 1.
C19_SplitPostcondition ==
  [][last'.split => SplitPostcondition(last'.key)]_vars

\* While the directory fits its arrays after the split, the split is as C19 says.
DefinedSplitPostcondition ==
  [][(last'.split /\ Defined') => SplitPostcondition(last'.key)]_vars

\* C20: SplitInsert allocates a new bucket and changes the directory only if,
\* after it has acquired the table latch in exclusive mode, the bucket the key
\* currently routes to is full; if that bucket is no longer full it inserts
\* into that bucket and makes no structural change.
C20_SplitOnlyIfStillFull ==
  [][\A t \in Threads :
       (thread[t].pc = "SplitInsert" /\ thread'[t].pc # "SplitInsert") =>
         LET bucket_page_id == KeyToPageId(thread[t].key, dir_page)
             bucket_page == pages[bucket_page_id]
         IN /\ (allocated' # allocated \/ dir_page' # dir_page) => IsFull(bucket_page)
            /\ ~IsFull(bucket_page) =>
                  /\ dir_page' = dir_page
                  /\ allocated' = allocated
                  /\ pages' = [pages EXCEPT ![bucket_page_id] =
                                 BucketInsert(bucket_page, thread[t].key,
                                              thread[t].value).page]]_vars

\* A thread is in SplitInsert with the table latch held exclusively, and the
\* bucket its key routes to, full when its Insert read IsFull, is no longer
\* full: another thread has returned from a call in between
C20_Witness ==
  \E t \in Threads, u \in Threads :
    /\ thread[t].pc = "SplitInsert"
    /\ table_latch.writer = t
    /\ ~IsFull(pages[KeyToPageId(thread[t].key, dir_page)])
    /\ u # t
    /\ thread[u].calls > 0

\* the bucket pages the step deletes
Deleted == allocated \ allocated'

\* What C21 says of a step that deletes bucket page p: a thread is in Merge or
\* ExtraMerge with table_latch_ held exclusively, p has no readable entry, the
\* slots of p have one local depth d > 0, their split images have local depth
\* d and point to one other bucket q, and after the step every slot that
\* pointed to p or q points to q, which is still in use, with local depth d-1.
MergePostcondition(p) ==
  LET slots == 0 .. (Size(dir_page) - 1)
      of_p == {i \in slots : GetBucketPageId(dir_page, i) = p}
  IN /\ \E t \in Threads :
          table_latch.writer = t /\ thread[t].pc \in {"Merge", "ExtraMerge"}
     /\ GetAllItem(pages[p]) = {}
     /\ of_p # {}
     /\ \E d \in 1 .. DepthCap : \E q \in allocated' :
          /\ q # p
          /\ \A i \in of_p :
               /\ GetLocalDepth(dir_page, i) = d
               /\ GetLocalDepth(dir_page, GetSplitImageIndex(dir_page, i)) = d
               /\ GetBucketPageId(dir_page, GetSplitImageIndex(dir_page, i)) = q
          /\ \A i \in slots :
               GetBucketPageId(dir_page, i) \in {p, q} =>
                 /\ GetBucketPageId(dir_page', i) = q
                 /\ GetLocalDepth(dir_page', i) = d - 1

C22_PageAccessUnderLatch ==
  \A t \in Threads : \A a \in NextAccesses(t) : HoldsPageLatch(t, a)

\* GetValue, Insert and Remove of the bucket page are called under its latch.
FastPathMethodsUnderLatch ==
  \A t \in Threads : \A a \in NextAccesses(t) :
    thread[t].pc \in {"GetValue_Bucket", "Insert_Bucket", "Remove_Bucket"}
      => HoldsPageLatch(t, a)

NoPinOnDeletedPage ==
  [][\A p \in Deleted :
       /\ \A t \in Threads : p \notin PinnedBy(t)
       /\ \A slot \in 0 .. (Size(dir_page') - 1) :
            GetBucketPageId(dir_page', slot) # p]_vars

\* Of the buffer pool calls of a Remove that went on to Merge (the fast path,
\* then Merge, then the turns of the ExtraMerge loop), the turns in which
\* ExtraMerge returned true: those that called DeletePage.
ExtraMergeTurns(ops) == 3 .. Len(ops)

ExtraMergeOccurred(ops) ==
  {i \in ExtraMergeTurns(ops) : \E j \in DOMAIN ops[i] : ops[i][j].call = "DeletePage"}

\* the table when the ExtraMerge loop of Remove(key, value) starts
BeforeExtraMerge(key, value) ==
  LET bucket_page_id == KeyToPageId(key, dir_page)
      r == BucketRemove(pages[bucket_page_id], key, value)
  IN Merge([Table EXCEPT !.pages[bucket_page_id] = r.page], key)

\* C24: the merge cascade started by Remove terminates: Merge runs once and the
\* loop while (ExtraMerge(...)) ends after finitely many turns; without
\* concurrent writers ExtraMerge returns true at most as many times as the
\* local depth of the key's bucket when the loop starts, because each
\* successful ExtraMerge lowers that local depth by one.
C24_MergeCascadeTerminates ==
  [][(last'.op = "Remove" /\ Len(pool_calls') > 1) =>
       LET key == last'.key
           start == BeforeExtraMerge(key, last'.value).dir
           d == GetLocalDepth(start, KeyToDirectoryIndex(key, start))
           turns == ExtraMergeTurns(pool_calls')
           occurred == ExtraMergeOccurred(pool_calls')
       IN /\ turns # {}
          /\ occurred = turns \ {Len(pool_calls')}
          /\ Cardinality(occurred) <= d
          /\ GetLocalDepth(dir_page', KeyToDirectoryIndex(key, dir_page'))
               = d - Cardinality(occurred)]_vars

\* The last call was a Remove in whose loop ExtraMerge returned true, then false.
C24_Witness ==
  /\ last.op = "Remove"
  /\ Len(pool_calls) = 4
  /\ ExtraMergeOccurred(pool_calls) = {3}

\* Under fair scheduling a thread in Merge or in the ExtraMerge loop returns.
MergeCascadeReturns ==
  \A t \in Threads :
    (thread[t].pc \in {"Merge_WLock", "Merge", "ExtraMerge_WLock", "ExtraMerge"})
      ~> (thread[t].pc = "idle" \/ ~Defined)

\* C25: in every bucket page and every reachable state, each slot whose
\* readable bit is set also has its occupied bit set; Insert, Remove, RemoveAt
\* and the redistribution of entries during a split preserve this.
C25_ReadableImpliesOccupied ==
  \A p \in PageIds : \A i \in Slots :
    IsReadable(pages[p], i) => IsOccupied(pages[p], i)

\* After a split and a removal: two bucket pages are in use, one of them has a
\* tombstone, and a slot of a page in use is readable
C25_Witness ==
  /\ Cardinality(allocated) > 1
  /\ \E p \in allocated : \E i \in Slots :
       IsOccupied(pages[p], i) /\ ~IsReadable(pages[p], i)
  /\ \E p \in allocated : \E i \in Slots : IsReadable(pages[p], i)
  /\ last.op = "Remove" /\ last.ret

\* C26: no bucket page operation ever clears an occupied bit: once a slot's
\* occupied bit is set it stays set through every later Insert, Remove and
\* RemoveAt on that page, for the whole lifetime of the page (until DeletePage).
C26_OccupiedMonotonic ==
  [][\A p \in allocated \cap allocated' : \A i \in Slots :
       IsOccupied(pages[p], i) => IsOccupied(pages'[p], i)]_vars

\* Remove or RemoveAt has just left a tombstone in slot 0 and a later slot is
\* still readable
C26_Witness ==
  /\ last.op \in {"Remove", "RemoveAt"}
  /\ IsOccupied(BucketPage, 0) /\ ~IsReadable(BucketPage, 0)
  /\ \E i \in Slots : IsReadable(BucketPage, i)
  /\ allocated = NewTable.allocated

\* C27 as stated: the number of further pairs a bucket page can accept never
\* increases when a pair is removed from it, and a slot freed by Remove is not
\* used again by a later Insert into that page (no split happens on the page
\* followed alone).
C27_ChurnLosesCapacity ==
  [][/\ (last'.op = "Remove" /\ last'.ret) =>
          FreeCapacity(BucketPage') <= FreeCapacity(BucketPage)
     /\ (last'.op = "Insert" /\ last'.ret) =>
          \A i \in Tombstones(BucketPage) : ~IsReadable(BucketPage', i)]_vars

\* C27 amended: removal never clears the occupied bit, so the number of slots
\* never used does not increase; but a slot freed by Remove is free for reuse:
\* a successful Remove raises the number of further pairs the page can accept
\* by one, and a successful Insert into a page with a tombstone stores its pair
\* in a tombstone.
C27_TombstonesAreReused ==
  [][/\ Cardinality(NeverUsed(BucketPage')) <= Cardinality(NeverUsed(BucketPage))
     /\ (last'.op = "Remove" /\ last'.ret) =>
          FreeCapacity(BucketPage') = FreeCapacity(BucketPage) + 1
     /\ (last'.op = "Insert" /\ last'.ret /\ Tombstones(BucketPage) # {}) =>
          \E i \in Tombstones(BucketPage) :
            /\ IsReadable(BucketPage', i)
            /\ BucketPage'.array[i] = <<last'.key, last'.value>>]_vars

\* Remove has just emptied a page whose slots have all been used: every slot
\* is a tombstone and the page accepts BUCKET_ARRAY_SIZE further pairs
C27_Witness ==
  /\ last.op = "Remove" /\ last.ret
  /\ Tombstones(BucketPage) = Slots
  /\ FreeCapacity(BucketPage) = BUCKET_ARRAY_SIZE

\* the local depths of the directory slots in use
LocalDepths(dir) == {GetLocalDepth(dir, i) : i \in 0 .. (Size(dir) - 1)}

\* the directory is minimal: the global depth is the largest local depth
Minimal(dir) ==
  /\ \A d \in LocalDepths(dir) : d <= GetGlobalDepth(dir)
  /\ GetGlobalDepth(dir) \in LocalDepths(dir)

\* a step that lowers the global depth lowers it by one, from a directory
\* whose local depths, the merge done, are all smaller than it
ShrinksOnce ==
  GetGlobalDepth(dir_page') < GetGlobalDepth(dir_page) =>
    /\ GetGlobalDepth(dir_page') = GetGlobalDepth(dir_page) - 1
    /\ CanShrink(IncrGlobalDepth(dir_page'))

\* C28: whenever no thread holds the table latch exclusively the global depth
\* equals the largest local depth of the slots in use; the global depth is
\* decremented only when every local depth is smaller than it, and one
\* decrement per merge suffices.
C28_DirectoryMinimal ==
  /\ [](table_latch.writer = 0 => Minimal(dir_page))
  /\ [][ShrinksOnce]_vars

\* The same while the directory fits its arrays, Merge and each turn of
\* ExtraMerge being steps of their own
DefinedDirectoryMinimal ==
  /\ []((Defined /\ table_latch.writer = 0) => Minimal(dir_page))
  /\ [][Defined' => ShrinksOnce]_vars

\* every readable entry of a bucket page in use is in the page its key is
\* routed to
Routed(T) ==
  \A p \in T.allocated : \A kv \in GetAllItem(T.pages[p]) :
    KeyToPageId(kv[1], T.dir) = p

\* C29: whenever no thread holds the table latch exclusively, every readable
\* entry (k, v) stored in a bucket page B satisfies
\* bucket_page_ids[hash(k) & global_depth_mask] = B.
C29_RoutingInvariant == table_latch.writer = 0 => Routed(Table)

\* The same while the directory fits its arrays
DefinedRoutingInvariant == (Defined /\ table_latch.writer = 0) => Routed(Table)

\* the steps that fetch the page they read within the step itself
FetchesWithinStep(t) == thread[t].pc \in {"SplitInsert", "Merge", "ExtraMerge"}

\* C30: a table operation accesses a bucket page's contents only between its
\* own FetchPage of that page and its own UnpinPage of it, and never after the
\* page may have been deleted; the IsFull test of Insert and the IsEmpty test
\* of Remove included.
C30_AccessWhilePinned ==
  \A t \in Threads : \A a \in NextAccesses(t) :
    \/ FetchesWithinStep(t)
    \/ /\ a.page_id \in PinnedBy(t)
       /\ a.page_id \in allocated
       /\ ~thread[t].dangling

\* The bucket page methods GetValue, Insert and Remove of the fast paths are
\* called on a page the thread has pinned and that is in use
FastPathMethodsWhilePinned ==
  \A t \in Threads : \A a \in NextAccesses(t) :
    (~FetchesWithinStep(t) /\ a.method \in {"GetValue", "Insert", "Remove"}) =>
      /\ a.page_id \in PinnedBy(t)
      /\ a.page_id \in allocated
      /\ ~thread[t].dangling

\* Remove is about to read IsEmpty of a page that another thread's merge has
\* deleted since this thread unpinned it (a state the threads that insert and
\* remove reach)
ReadsDeletedPage ==
  \E t \in Threads :
    /\ thread[t].pc = "Remove_IsEmpty" /\ thread[t].ret
    /\ thread[t].dangling
    /\ thread[t].bucket_page_id \notin allocated

\* an empty bucket whose split image has its local depth
EmptyWithEqualImage(T) ==
  \E i \in 0 .. (Size(T.dir) - 1) :
    /\ GetLocalDepth(T.dir, i) > 0
    /\ IsEmpty(T.pages[GetBucketPageId(T.dir, i)])
    /\ GetLocalDepth(T.dir, GetSplitImageIndex(T.dir, i)) = GetLocalDepth(T.dir, i)

C32_MergeShiftInRange ==
  \A t \in Threads :
    thread[t].pc = "Merge" => ValidShift(SameMaskShift(Table, thread[t].key))

\* A merge that occurs was computed with a shift amount in range: same_mask is
\* used only under local_depth > 0
MergeOccursWithShiftInRange ==
  [][\A t \in Threads :
       (thread[t].pc = "Merge" /\ allocated' # allocated) =>
         ValidShift(SameMaskShift(Table, thread[t].key))]_vars

\* call j of operation i of the last call of the table interface unpins a page
\* the operation has pinned: before it the operation has pinned the page more
\* often than it has unpinned it, and the pin count of the page is not zero
UnpinsOwnPin(i, j) ==
  LET p == pool_calls[i][j].page_id
      before == SubSeq(pool_calls[i], 1, j - 1)
  IN /\ Pinned(before, p) > Unpinned(before, p)
     /\ PoolCalls([q \in AllPageIds |-> 0], before)[p] > 0

\* C33: the table calls UnpinPage only on a page the same operation has
\* pinned, obtained through FetchPage or NewPage and not yet unpinned by it.
C33_UnpinOnlyOwnPin ==
  \A i \in DOMAIN pool_calls : \A j \in DOMAIN pool_calls[i] :
    pool_calls[i][j].call = "UnpinPage" => UnpinsOwnPin(i, j)

\* The operations other than ExtraMerge (the third and later operations of a
\* Remove) unpin only pages they have pinned
OthersUnpinOwnPin ==
  \A i \in DOMAIN pool_calls : \A j \in DOMAIN pool_calls[i] :
    (pool_calls[i][j].call = "UnpinPage" /\ ~(last.op = "Remove" /\ i >= 3)) =>
      UnpinsOwnPin(i, j)

\* the occupied slots of a page are the slots before some index, and no slot
\* from that index on is readable
OccupiedPrefix(page) ==
  \A i, j \in Slots :
    (i < j /\ ~IsOccupied(page, i)) => ~IsOccupied(page, j) /\ ~IsReadable(page, j)

\* the scans of GetValue, Insert and Remove, which stop at the first slot
\* never occupied, see every readable entry of the page
ScansSeeAll(page) ==
  /\ \A key \in Keys :
       SeqToSet(BucketGetValue(page, key).result) =
         {kv[2] : kv \in {e \in GetAllItem(page) : e[1] = key}}
  /\ \A kv \in GetAllItem(page) :
       /\ ~BucketInsert(page, kv[1], kv[2]).ret
       /\ BucketRemove(page, kv[1], kv[2]).ret

\* C34: in every bucket page and every reachable state the occupied slots
\* form a contiguous prefix of the slot array, so the early stop of GetValue,
\* Insert and Remove at the first never-occupied slot skips no live entry and
\* no existing duplicate.
C34_OccupiedPrefix ==
  \A p \in PageIds : OccupiedPrefix(pages[p]) /\ ScansSeeAll(pages[p])

\* a page holds a live pair behind a tombstone, and a second page was filled
\* by a split
C34_Witness ==
  /\ \E p \in allocated : \E i, j \in Slots :
       /\ i < j
       /\ IsOccupied(pages[p], i) /\ ~IsReadable(pages[p], i)
       /\ IsReadable(pages[p], j)
  /\ \E p \in allocated \ NewTable.allocated : ~IsEmpty(pages[p])

\* While the directory fits its arrays an Insert that returns true has stored
\* its pair and lost no other, and Remove, GetValue and the directory are as
\* C4 to C8 say.
DefinedInsertStores ==
  [][(Defined' /\ last'.op = "Insert" /\ last'.ret) =>
       LivePairs' = LivePairs \cup {LastPair'}]_vars

DefinedRemoveExact == [][Defined => RemoveExact]_vars

DefinedDirectoryInvariants ==
  Defined => /\ C5_GetValueExact
             /\ C6_LocalDepthBounded
             /\ C7_BucketSlotCount
             /\ C8_SplitImageConsistency

\* While the directory fits its arrays no insert is lost under concurrency
DefinedNoInsertLost ==
  /\ [][(Defined' /\ Returns /\ last'.op = "Insert" /\ last'.ret) =>
          LastPair' \in LivePairs']_vars
  /\ [][Defined' => (LivePairs \ called) \subseteq LivePairs']_vars
  /\ []((Defined /\ AllReturned) =>
          /\ (LivePairs \ called) \subseteq Retrievable
          /\ C6_LocalDepthBounded
          /\ C7_BucketSlotCount
          /\ C8_SplitImageConsistency)

\* In a build that evaluates assert the pins of every operation balance
AssertBuildPinBalance == ~ndebug => C14_PinBalance

\* A page that was written is never unpinned clean
WrittenUnpinnedDirty ==
  \A i \in DOMAIN pool_calls : \A j \in DOMAIN pool_calls[i] :
    (pool_calls[i][j].call = "UnpinPage" /\ pool_calls[i][j].written) =>
      pool_calls[i][j].is_dirty

====
